---- MODULE Spec2Model ----
\* Model of the MarkTwo paragraph enhancement pipeline:
\*   - MarkdownProcessor.extractParagraphs (src/src/markdownProcessor.ts),
\*   - the caches, processDocument and keepParagraph of the extension entry
\*     point (src/unnamed/part_000).
\* Text is modelled character by character: a string is a sequence of
\* UTF-16 code units, a document is the sequence of its lines.
EXTENDS Integers, Sequences, FiniteSets, TLC

\* ------------------------------------------------------------------
\* Characters and strings
\* ------------------------------------------------------------------
NL == 10
\* the characters matched by \s and removed by trim (ASCII range)
Whitespace == {9, 10, 11, 12, 13, 32}

UpperCase == 65..90
LowerCase == 97..122
Digits == 48..57

\* String.prototype.toLowerCase on one code unit (ASCII range)
ToLower(c) == IF c \in UpperCase THEN c + 32 ELSE c

\* s.startsWith(p, pos-1): p occurs in s at the 1-based position pos
OccursAt(s, pos, p) ==
    /\ pos >= 1
    /\ pos + Len(p) - 1 <= Len(s)
    /\ \A k \in 1..Len(p) : s[pos + k - 1] = p[k]

\* the same, ignoring case (regular expressions with the i flag)
OccursAtI(s, pos, p) ==
    /\ pos >= 1
    /\ pos + Len(p) - 1 <= Len(s)
    /\ \A k \in 1..Len(p) : ToLower(s[pos + k - 1]) = ToLower(p[k])

StartsWith(s, p) == OccursAt(s, 1, p)

\* index of the first non-whitespace character at or after pos (Len(s)+1 if none)
SkipWs(s, pos) ==
    IF \E k \in pos..Len(s) : s[k] \notin Whitespace
    THEN CHOOSE k \in pos..Len(s) :
            /\ s[k] \notin Whitespace
            /\ \A j \in pos..(k - 1) : s[j] \in Whitespace
    ELSE Len(s) + 1

\* String.prototype.trim
Trim(s) ==
    LET first == SkipWs(s, 1)
    IN  IF first > Len(s) THEN <<>>
        ELSE LET last == CHOOSE k \in first..Len(s) :
                            /\ s[k] \notin Whitespace
                            /\ \A j \in (k + 1)..Len(s) : s[j] \in Whitespace
             IN  SubSeq(s, first, last)

\* Array.prototype.join('\n')
RECURSIVE JoinLines(_)
JoinLines(ls) ==
    IF Len(ls) = 0 THEN <<>>
    ELSE IF Len(ls) = 1 THEN ls[1]
    ELSE ls[1] \o <<NL>> \o JoinLines(Tail(ls))

\* String.prototype.split('\n')
RECURSIVE SplitLines(_)
SplitLines(s) ==
    IF \E k \in 1..Len(s) : s[k] = NL
    THEN LET k == CHOOSE k \in 1..Len(s) :
                     s[k] = NL /\ \A j \in 1..(k - 1) : s[j] # NL
         IN  <<SubSeq(s, 1, k - 1)>> \o SplitLines(SubSeq(s, k + 1, Len(s)))
    ELSE <<s>>

\* ------------------------------------------------------------------
\* Directive patterns (markdownProcessor.ts lines 9-16, 108, 136, 164)
\* ------------------------------------------------------------------
HtmlOpen == <<60, 33, 45, 45>>        \* "<!--"
HtmlClose == <<45, 45, 62>>           \* "-->"
JsxOpen == <<123, 47, 42>>            \* "{/*"
JsxClose == <<42, 47, 125>>           \* "*/}"
AiIgnoreWord == <<97, 105, 45, 105, 103, 110, 111, 114, 101>>          \* "ai-ignore"
NoEnhanceWord == <<110, 111, 45, 101, 110, 104, 97, 110, 99, 101>>     \* "no-enhance"
AiStyleWord == <<97, 105, 45, 115, 116, 121, 108, 101, 58>>            \* "ai-style:"

\* EnhancementMode (types.ts) and the spelling of each mode
EnhancementMode == {"expand", "clarify", "professional", "casual", "technical", "list-expand"}
ModeText(m) ==
    CASE m = "expand"       -> <<101, 120, 112, 97, 110, 100>>
      [] m = "clarify"      -> <<99, 108, 97, 114, 105, 102, 121>>
      [] m = "professional" -> <<112, 114, 111, 102, 101, 115, 115, 105, 111, 110, 97, 108>>
      [] m = "casual"       -> <<99, 97, 115, 117, 97, 108>>
      [] m = "technical"    -> <<116, 101, 99, 104, 110, 105, 99, 97, 108>>
      [] m = "list-expand"  -> <<108, 105, 115, 116, 45, 101, 120, 112, 97, 110, 100>>

NoStyle == "undefined"

\* \s* close matched at d: the position after the match, 0 if none
MatchClose(s, d, close) ==
    IF OccursAtI(s, d, close) THEN d + Len(close) ELSE 0

\* word \s* close matched at b
MatchWord(s, b, word, close) ==
    IF OccursAtI(s, b, word) THEN MatchClose(s, SkipWs(s, b + Len(word)), close) ELSE 0

\* open \s* word \s* close matched at pos: the position after the match, 0 if none
MatchComment(s, pos, open, word, close) ==
    IF OccursAtI(s, pos, open)
    THEN MatchWord(s, SkipWs(s, pos + Len(open)), word, close)
    ELSE 0

\* the first alternative of a pattern that matches
FirstMatch(h, j) == IF h # 0 THEN h ELSE j

\* (?:<!--\s*word\s*-->|\{\/\*\s*word\s*\*\/\}) matched at pos
MatchDirective(s, pos, word) ==
    FirstMatch(MatchComment(s, pos, HtmlOpen, word, HtmlClose),
               MatchComment(s, pos, JsxOpen, word, JsxClose))

\* mode \s* close matched at c: the position after the match, 0 if none
MatchMode(s, c, m, close) ==
    IF OccursAtI(s, c, ModeText(m))
    THEN MatchClose(s, SkipWs(s, c + Len(ModeText(m))), close)
    ELSE 0

\* the result of a style match for the modes ms that match at c
StyleOfModes(s, c, close, ms) ==
    IF ms = {} THEN <<0, NoStyle>>
    ELSE <<MatchMode(s, c, CHOOSE m \in ms : TRUE, close), CHOOSE m \in ms : TRUE>>

\* ai-style: \s* (mode) \s* close matched at b
MatchStyleWord(s, b, close) ==
    IF OccursAtI(s, b, AiStyleWord)
    THEN StyleOfModes(s, SkipWs(s, b + Len(AiStyleWord)), close,
                      {m \in EnhancementMode :
                          MatchMode(s, SkipWs(s, b + Len(AiStyleWord)), m, close) # 0})
    ELSE <<0, NoStyle>>

\* open \s* ai-style: \s* (mode) \s* close matched at pos: <<end, mode>>
MatchStyleComment(s, pos, open, close) ==
    IF OccursAtI(s, pos, open)
    THEN MatchStyleWord(s, SkipWs(s, pos + Len(open)), close)
    ELSE <<0, NoStyle>>

FirstStyleMatch(h, j) == IF h[1] # 0 THEN h ELSE j

MatchStyle(s, pos) ==
    FirstStyleMatch(MatchStyleComment(s, pos, HtmlOpen, HtmlClose),
                    MatchStyleComment(s, pos, JsxOpen, JsxClose))

\* trimmedLine.match(/^(?:...)$/i) for the three standalone directives
IsStandaloneIgnore(trimmedLine) ==
    MatchDirective(trimmedLine, 1, AiIgnoreWord) = Len(trimmedLine) + 1
IsStandaloneNoEnhance(trimmedLine) ==
    MatchDirective(trimmedLine, 1, NoEnhanceWord) = Len(trimmedLine) + 1
WholeLineStyle(trimmedLine, m) ==
    IF m[1] = Len(trimmedLine) + 1 THEN m[2] ELSE NoStyle
StandaloneStyle(trimmedLine) == WholeLineStyle(trimmedLine, MatchStyle(trimmedLine, 1))

\* AI_IGNORE_PATTERN.test(line), NO_ENHANCE_PATTERN.test(line)
hasAiIgnoreComment(line) ==
    \E pos \in 1..Len(line) : MatchDirective(line, pos, AiIgnoreWord) # 0
hasNoEnhanceComment(line) ==
    \E pos \in 1..Len(line) : MatchDirective(line, pos, NoEnhanceWord) # 0

\* the mode of the match at the least of the positions ps
StyleAtLeftmost(text, ps) ==
    IF ps = {} THEN NoStyle
    ELSE MatchStyle(text, CHOOSE p \in ps : \A q \in ps : p <= q)[2]

\* text.match(STYLE_PATTERN): the mode of the leftmost match
extractStyleOverride(text) ==
    StyleAtLeftmost(text, {pos \in 1..Len(text) : MatchStyle(text, pos)[1] # 0})

\* ------------------------------------------------------------------
\* Paragraph type detection (markdownProcessor.ts lines 293-402)
\* ------------------------------------------------------------------
Import == <<105, 109, 112, 111, 114, 116>>   \* "import"
Export == <<101, 120, 112, 111, 114, 116>>   \* "export"
Fence == <<96, 96, 96>>                      \* "```"
Tilde == <<126, 126, 126>>                   \* "~~~"
Dashes == <<45, 45, 45>>                     \* "---"
LT == 60
GT == 62
Slash == 47
LBrace == 123
RBrace == 125
Hash == 35
Dot == 46
ListMarkers == {45, 42, 43}                  \* - * +
AlphaNum == UpperCase \cup LowerCase \cup Digits

\* /\{\/\*\s*(ai-ignore|no-enhance|ai-style:)/i.test(trimmed)
IsOwnJsxDirective(trimmed) ==
    \E pos \in 1..Len(trimmed) :
        /\ OccursAt(trimmed, pos, JsxOpen)
        /\ \E w \in {AiIgnoreWord, NoEnhanceWord, AiStyleWord} :
              OccursAtI(trimmed, SkipWs(trimmed, pos + Len(JsxOpen)), w)

\* /^(import|export)\s/ for one of the two keywords
IsKeywordLine(t, word) ==
    /\ Len(t) > Len(word)
    /\ StartsWith(t, word)
    /\ t[Len(word) + 1] \in Whitespace

\* the position after the component name of <[A-Z][a-zA-Z0-9]*
NameEnd(t) ==
    IF \E k \in 3..Len(t) : t[k] \notin AlphaNum
    THEN CHOOSE k \in 3..Len(t) :
           t[k] \notin AlphaNum /\ \A j \in 3..(k - 1) : t[j] \in AlphaNum
    ELSE Len(t) + 1

\* /^<[A-Z][a-zA-Z0-9]*[\s/>]/
IsComponentOpen(t, nameEnd) ==
    /\ Len(t) >= 2 /\ t[1] = LT /\ t[2] \in UpperCase
    /\ nameEnd <= Len(t)
    /\ t[nameEnd] \in Whitespace \cup {Slash, GT}

\* /^<[A-Z][^>]*\/>$/
IsSelfClosing(t) ==
    /\ Len(t) >= 4 /\ t[Len(t)] = GT /\ t[Len(t) - 1] = Slash
    /\ \A k \in 3..(Len(t) - 2) : t[k] # GT

\* /^<[A-Z][^>]*>.*<\/[A-Z][a-zA-Z0-9]*>$/s
IsPaired(t) ==
    \E p \in 3..Len(t) :
        /\ t[p] = GT /\ \A k \in 3..(p - 1) : t[k] # GT
        /\ \E q \in (p + 1)..(Len(t) - 3) :
              /\ t[q] = LT /\ t[q + 1] = Slash /\ t[q + 2] \in UpperCase
              /\ \A k \in (q + 3)..(Len(t) - 1) : t[k] \in AlphaNum
              /\ t[Len(t)] = GT

\* the tests of isMdxSyntax on the trimmed content
IsMdxTrimmed(t) ==
    \/ IsKeywordLine(t, Import)
    \/ IsKeywordLine(t, Export)
    \/ (IsComponentOpen(t, NameEnd(t)) /\ (IsSelfClosing(t) \/ IsPaired(t)))
    \/ (/\ Len(t) >= 3 /\ t[1] = LBrace /\ t[Len(t)] = RBrace
        /\ \A k \in 2..(Len(t) - 1) : t[k] # RBrace
        /\ ~IsOwnJsxDirective(t))
    \/ (/\ Len(t) >= 6 /\ StartsWith(t, JsxOpen) /\ OccursAt(t, Len(t) - 2, JsxClose)
        /\ ~IsOwnJsxDirective(t))

isMdxSyntax(content) == IsMdxTrimmed(Trim(content))

\* content.replace(/<[^>]+>/g, '') from position pos on
RECURSIVE StripTags(_, _)
StripTags(s, pos) ==
    IF pos > Len(s) THEN <<>>
    ELSE IF /\ s[pos] = LT
            /\ pos + 1 <= Len(s) /\ s[pos + 1] # GT
            /\ \E k \in (pos + 2)..Len(s) : s[k] = GT
         THEN LET k == CHOOSE k \in (pos + 2)..Len(s) :
                          s[k] = GT /\ \A j \in (pos + 2)..(k - 1) : s[j] # GT
              IN  StripTags(s, k + 1)
         ELSE <<s[pos]>> \o StripTags(s, pos + 1)

\* /^<[a-zA-Z]/ after leading whitespace, p the first non-whitespace position
StartsWithHtmlTag(content, p) ==
    /\ p + 1 <= Len(content) /\ content[p] = LT
    /\ content[p + 1] \in UpperCase \cup LowerCase

\* the tests of isHtmlOnly, withoutTags the trimmed text left without its tags
IsHtmlOnlyGiven(content, withoutTags) ==
    \/ Len(withoutTags) = 0
    \/ (/\ StartsWithHtmlTag(content, SkipWs(content, 1))
        /\ 10 * Len(withoutTags) < Len(content))

isHtmlOnly(content) == IsHtmlOnlyGiven(content, Trim(StripTags(content, 1)))

\* the position after the leading digits of /^\d+\.\s/
DigitsEnd(firstLine) ==
    IF \E k \in 1..Len(firstLine) : firstLine[k] \notin Digits
    THEN CHOOSE k \in 1..Len(firstLine) :
           firstLine[k] \notin Digits /\ \A j \in 1..(k - 1) : firstLine[j] \in Digits
    ELSE Len(firstLine) + 1

\* /^\d+\.\s/
IsOrderedItem(firstLine, digitsEnd) ==
    /\ digitsEnd > 1 /\ digitsEnd + 1 <= Len(firstLine)
    /\ firstLine[digitsEnd] = Dot
    /\ firstLine[digitsEnd + 1] \in Whitespace

\* the tests of detectParagraphType on the trimmed first line and content
TypeOfContent(firstLine, fullContent) ==
    IF isMdxSyntax(fullContent) THEN "mdx"
    ELSE IF Len(firstLine) >= 1 /\ firstLine[1] = Hash THEN "heading"
    ELSE IF \/ (/\ Len(firstLine) >= 2 /\ firstLine[1] \in ListMarkers
                /\ firstLine[2] \in Whitespace)
            \/ IsOrderedItem(firstLine, DigitsEnd(firstLine)) THEN "list"
    ELSE IF Len(firstLine) >= 1 /\ firstLine[1] = GT THEN "quote"
    ELSE IF StartsWith(firstLine, Fence) \/ StartsWith(firstLine, Tilde) THEN "code"
    ELSE IF isHtmlOnly(fullContent) THEN "html"
    ELSE "text"

detectParagraphType(lines) ==
    IF Len(lines) = 0 THEN "empty"
    ELSE TypeOfContent(Trim(lines[1]), Trim(JoinLines(lines)))

\* ------------------------------------------------------------------
\* MarkdownProcessor.extractParagraphs (markdownProcessor.ts lines 57-288)
\* The scan state st holds the local variables of the method; line
\* numbers are 0-based as in the source, TLA+ sequences are 1-based.
\* ------------------------------------------------------------------
ScanInit(idCounter) ==
    [ paragraphs |-> <<>>,
      currentParagraph |-> <<>>,
      startLine |-> 0,
      inCodeBlock |-> FALSE,
      codeBlockDelimiter |-> <<>>,
      ignoreNextParagraph |-> FALSE,
      noEnhanceNextParagraph |-> FALSE,
      styleOverrideNext |-> NoStyle,
      inFrontmatter |-> FALSE,
      frontmatterStart |-> -1,
      idCounter |-> idCounter ]

\* paragraphs.push({...}) with a fresh id from generateId()
PushParagraph(st, para) ==
    [st EXCEPT !.paragraphs = Append(@, [para EXCEPT !.id = st.idCounter]),
               !.idCounter = @ + 1]

\* the record built at the five flush sites, paraContent the accumulated lines
\* joined
ParagraphOf(st, endLine, type, paraContent) ==
    [ content |-> paraContent,
      startLine |-> st.startLine,
      endLine |-> endLine,
      type |-> type,
      id |-> 0,
      ignore |-> st.ignoreNextParagraph \/ hasAiIgnoreComment(paraContent),
      noEnhance |-> st.noEnhanceNextParagraph \/ hasNoEnhanceComment(paraContent),
      styleOverride |-> IF st.styleOverrideNext # NoStyle
                        THEN st.styleOverrideNext
                        ELSE extractStyleOverride(paraContent) ]

AccumulatedParagraph(st, endLine, type) ==
    ParagraphOf(st, endLine, type, JoinLines(st.currentParagraph))

HasText(st) == Len(Trim(JoinLines(st.currentParagraph))) > 0

ClearNextFlags(st) ==
    [st EXCEPT !.ignoreNextParagraph = FALSE,
               !.noEnhanceNextParagraph = FALSE,
               !.styleOverrideNext = NoStyle]

\* lines 76-81: the front matter opens on line 0
StepFrontmatterStart(st, i, line) ==
    [st EXCEPT !.inFrontmatter = TRUE,
               !.frontmatterStart = 0,
               !.currentParagraph = <<line>>]

\* lines 84-99: the closing --- of the front matter
StepFrontmatterEnd(st, i, line) ==
    LET acc == Append(st.currentParagraph, line)
        st1 == PushParagraph(st,
                 [ content |-> JoinLines(acc),
                   startLine |-> st.frontmatterStart,
                   endLine |-> i,
                   type |-> "frontmatter",
                   id |-> 0,
                   ignore |-> TRUE,
                   noEnhance |-> FALSE,
                   styleOverride |-> NoStyle ])
    IN  [st1 EXCEPT !.currentParagraph = <<>>,
                    !.inFrontmatter = FALSE,
                    !.frontmatterStart = -1]

\* if (paraContent.trim()) paragraphs.push(...) of the directive branches
\* (lines 111-122, 139-150)
FlushIfText(st, endLine) ==
    IF HasText(st)
    THEN PushParagraph(st, AccumulatedParagraph(st, endLine,
             detectParagraphType(st.currentParagraph)))
    ELSE st

\* the same with the flags cleared after the push (lines 176-190, 236-250)
FlushAndClearIfText(st, endLine) ==
    IF HasText(st)
    THEN ClearNextFlags(PushParagraph(st, AccumulatedParagraph(st, endLine,
             detectParagraphType(st.currentParagraph))))
    ELSE st

\* lines 108-133: a standalone ai-ignore directive
StepIgnoreDirective(st, i, line) ==
    [ (IF Len(st.currentParagraph) > 0
       THEN [FlushIfText(st, i - 1) EXCEPT !.currentParagraph = <<>>,
                                           !.noEnhanceNextParagraph = FALSE,
                                           !.styleOverrideNext = NoStyle]
       ELSE st)
      EXCEPT !.ignoreNextParagraph = TRUE ]

\* lines 136-161: a standalone no-enhance directive
StepNoEnhanceDirective(st, i, line) ==
    [ (IF Len(st.currentParagraph) > 0
       THEN [FlushIfText(st, i - 1) EXCEPT !.currentParagraph = <<>>,
                                           !.ignoreNextParagraph = FALSE,
                                           !.styleOverrideNext = NoStyle]
       ELSE st)
      EXCEPT !.noEnhanceNextParagraph = TRUE ]

\* lines 164-168: a standalone ai-style directive
StepStyleDirective(st, i, line) ==
    [st EXCEPT !.styleOverrideNext = StandaloneStyle(Trim(line))]

\* lines 198-201: a code block opens on the line, after the flush
OpenCodeBlock(st, i, line) ==
    [st EXCEPT !.inCodeBlock = TRUE,
               !.codeBlockDelimiter =
                   IF StartsWith(Trim(line), Fence) THEN Fence ELSE Tilde,
               !.currentParagraph = <<line>>,
               !.startLine = i]

\* lines 171-224: a line that begins with a fence token
StepFence(st, i, line) ==
    IF ~st.inCodeBlock
    THEN OpenCodeBlock(IF Len(st.currentParagraph) > 0
                       THEN [FlushAndClearIfText(st, i - 1) EXCEPT !.currentParagraph = <<>>]
                       ELSE st,
                       i, line)
    ELSE IF StartsWith(Trim(line), st.codeBlockDelimiter)
    THEN ClearNextFlags([PushParagraph(st,
                             [ content |-> JoinLines(Append(st.currentParagraph, line)),
                               startLine |-> st.startLine,
                               endLine |-> i,
                               type |-> "code",
                               id |-> 0,
                               ignore |-> TRUE,
                               noEnhance |-> FALSE,
                               styleOverride |-> NoStyle ])
                         EXCEPT !.currentParagraph = <<>>,
                                !.inCodeBlock = FALSE,
                                !.codeBlockDelimiter = <<>>])
    ELSE [st EXCEPT !.currentParagraph = Append(@, line)]

\* StepBlank with the bug of treating a blank line as content of the paragraph
\* being accumulated
StepBlank_Accumulates(st, i, line) ==
    IF Len(st.currentParagraph) > 0
    THEN [st EXCEPT !.currentParagraph = Append(@, line)]
    ELSE st

\* lines 233-257: an empty line marks a paragraph boundary
StepBlank(st, i, line) ==
    IF Len(st.currentParagraph) > 0
    THEN [FlushAndClearIfText(st, i - 1) EXCEPT !.currentParagraph = <<>>]
    ELSE st

\* lines 260-264: any other line starts or continues a paragraph
StepText(st, i, line) ==
    [st EXCEPT !.startLine = IF Len(st.currentParagraph) = 0 THEN i ELSE @,
               !.currentParagraph = Append(@, line)]

\* one iteration of the for loop, lines 71-265
ScanStep(st, i, line) ==
    LET trimmedLine == Trim(line)
    IN  IF i = 0 /\ trimmedLine = Dashes THEN StepFrontmatterStart(st, i, line)
        ELSE IF st.inFrontmatter /\ trimmedLine = Dashes THEN StepFrontmatterEnd(st, i, line)
        ELSE IF st.inFrontmatter THEN [st EXCEPT !.currentParagraph = Append(@, line)]
        ELSE IF IsStandaloneIgnore(trimmedLine) THEN StepIgnoreDirective(st, i, line)
        ELSE IF IsStandaloneNoEnhance(trimmedLine) THEN StepNoEnhanceDirective(st, i, line)
        ELSE IF StandaloneStyle(trimmedLine) # NoStyle THEN StepStyleDirective(st, i, line)
        ELSE IF StartsWith(trimmedLine, Fence) \/ StartsWith(trimmedLine, Tilde)
             THEN StepFence(st, i, line)
        ELSE IF st.inCodeBlock THEN [st EXCEPT !.currentParagraph = Append(@, line)]
        ELSE IF trimmedLine = <<>> THEN StepBlank(st, i, line)
        ELSE StepText(st, i, line)

RECURSIVE ScanFrom(_, _, _)
ScanFrom(st, i, lines) ==
    IF i >= Len(lines) THEN st
    ELSE ScanFrom(ScanStep(st, i, lines[i + 1]), i + 1, lines)

\* ScanFinish with the bug of forgetting the content still accumulated
ScanFinish_NoFlush(st, lines) == st

\* lines 267-285: the remaining content after the last line
ScanFinish(st, lines) ==
    IF Len(st.currentParagraph) > 0 /\ HasText(st)
    THEN PushParagraph(st, AccumulatedParagraph(st, Len(lines) - 1,
             IF st.inCodeBlock THEN "code"
             ELSE detectParagraphType(st.currentParagraph)))
    ELSE st

\* the scan of a whole text with the processor's id counter
ScanText(content, idCounter) ==
    LET lines == SplitLines(content)
    IN  ScanFinish(ScanFrom(ScanInit(idCounter), 0, lines), lines)

extractParagraphs(content) == ScanText(content, 0).paragraphs

\* ------------------------------------------------------------------
\* MarkdownProcessor.buildContext and findChangedParagraphs
\* (markdownProcessor.ts lines 407-475)
\* ------------------------------------------------------------------
Max(a, b) == IF a >= b THEN a ELSE b
Abs(a) == IF a < 0 THEN -a ELSE a

\* Array.prototype.join('\n\n') of the contents
RECURSIVE JoinBlocks(_)
JoinBlocks(ts) ==
    IF Len(ts) = 0 THEN <<>>
    ELSE IF Len(ts) = 1 THEN ts[1]
    ELSE ts[1] \o <<NL, NL>> \o JoinBlocks(Tail(ts))

Min(a, b) == IF a <= b THEN a ELSE b

\* Array.prototype.slice(start, end) for start and end that are not negative:
\* both are clamped to the length of the array
Slice(a, start, end) == SubSeq(a, Min(start, Len(a)) + 1, Min(end, Len(a)))

\* buildContext with the bug of taking the window from the start of the list
buildContext_FromStart(paragraphs, currentIndex, windowSize) ==
    IF currentIndex <= 0 \/ windowSize <= 0 THEN <<>>
    ELSE LET contextParagraphs == Slice(paragraphs, 0, Min(windowSize, currentIndex))
         IN  JoinBlocks([k \in 1..Len(contextParagraphs) |-> contextParagraphs[k].content])

\* currentIndex is 0-based as in the source
buildContext(paragraphs, currentIndex, windowSize) ==
    IF currentIndex <= 0 \/ windowSize <= 0 THEN <<>>
    ELSE LET startIndex == Max(0, currentIndex - windowSize)
             contextParagraphs == Slice(paragraphs, startIndex, currentIndex)
         IN  JoinBlocks([k \in 1..Len(contextParagraphs) |-> contextParagraphs[k].content])

\* `${p.startLine}:${p.content}`
ChangeKey(p) == <<p.startLine, p.content>>

\* findChangedParagraphs with the bug of looking at every old paragraph near
\* the new one instead of the first
findChangedParagraphs_AnyNear(oldParagraphs, newParagraphs) ==
    LET oldKeys == {ChangeKey(oldParagraphs[k]) : k \in 1..Len(oldParagraphs)}
        newKeys == {ChangeKey(newParagraphs[k]) : k \in 1..Len(newParagraphs)}
        near(p, q) == Abs(q.startLine - p.startLine) <= 2
        \* oldParagraphs.find(...): the first old paragraph near p, 0 if none
        oldAtPosition(p) ==
            IF \E j \in 1..Len(oldParagraphs) : near(p, oldParagraphs[j])
            THEN CHOOSE j \in 1..Len(oldParagraphs) :
                    /\ near(p, oldParagraphs[j])
                    /\ \A h \in 1..(j - 1) : ~near(p, oldParagraphs[h])
            ELSE 0
        isModified(p) ==
            \E j \in 1..Len(oldParagraphs) :
                near(p, oldParagraphs[j]) /\ oldParagraphs[j].content # p.content
        missing == {k \in 1..Len(newParagraphs) : ChangeKey(newParagraphs[k]) \notin oldKeys}
    IN  [ added |-> {k \in missing : ~isModified(newParagraphs[k])},
          modified |-> {k \in missing : isModified(newParagraphs[k])},
          removed |-> {k \in 1..Len(oldParagraphs) :
                          /\ ChangeKey(oldParagraphs[k]) \notin newKeys
                          /\ ~\E j \in 1..Len(newParagraphs) :
                                near(oldParagraphs[k], newParagraphs[j])} ]

\* the result holds the 1-based indices of the paragraphs in their own list
\* (added and modified index newParagraphs, removed indexes oldParagraphs)
findChangedParagraphs(oldParagraphs, newParagraphs) ==
    LET oldKeys == {ChangeKey(oldParagraphs[k]) : k \in 1..Len(oldParagraphs)}
        newKeys == {ChangeKey(newParagraphs[k]) : k \in 1..Len(newParagraphs)}
        near(p, q) == Abs(q.startLine - p.startLine) <= 2
        \* oldParagraphs.find(...): the first old paragraph near p, 0 if none
        oldAtPosition(p) ==
            IF \E j \in 1..Len(oldParagraphs) : near(p, oldParagraphs[j])
            THEN CHOOSE j \in 1..Len(oldParagraphs) :
                    /\ near(p, oldParagraphs[j])
                    /\ \A h \in 1..(j - 1) : ~near(p, oldParagraphs[h])
            ELSE 0
        isModified(p) ==
            /\ oldAtPosition(p) # 0
            /\ oldParagraphs[oldAtPosition(p)].content # p.content
        missing == {k \in 1..Len(newParagraphs) : ChangeKey(newParagraphs[k]) \notin oldKeys}
    IN  [ added |-> {k \in missing : ~isModified(newParagraphs[k])},
          modified |-> {k \in missing : isModified(newParagraphs[k])},
          removed |-> {k \in 1..Len(oldParagraphs) :
                          /\ ChangeKey(oldParagraphs[k]) \notin newKeys
                          /\ ~\E j \in 1..Len(newParagraphs) :
                                near(oldParagraphs[k], newParagraphs[j])} ]

\* ------------------------------------------------------------------
\* hashContent and the caches (part_000 lines 23-45)
\* ------------------------------------------------------------------
Word16 == 65536

\* one round hash = ((hash << 5) - hash) + char; hash = hash & hash, on the
\* 32-bit value held as <<high 16 bits, low 16 bits>>
HashRound(h, char) ==
    LET lo == h[2] * 31 + char
        hi == h[1] * 31 + (lo \div Word16)
    IN  <<hi % Word16, lo % Word16>>

RECURSIVE HashFrom(_, _, _)
HashFrom(h, content, i) ==
    IF i > Len(content) THEN h
    ELSE HashFrom(HashRound(h, content[i]), content, i + 1)

\* `h${hash.toString(16)}_${content.length}`: the 32-bit hash and the length
hashContent(content) ==
    LET h == HashFrom(<<0, 0>>, content, 1)
    IN  <<h[1], h[2], Len(content)>>

\* hashContent(para.content.trim())
Fingerprint(content) == hashContent(Trim(content))

\* new Map()
EmptyMap == [k \in {} |-> 0]
\* Map.prototype.has and Map.prototype.set
MapHas(m, k) == k \in DOMAIN m
MapSet(m, k, v) == [x \in (DOMAIN m) \cup {k} |-> IF x = k THEN v ELSE m[x]]

\* An entry of enhancedCache.  `suggestions: response.suggestions` (lines
\* 442-445) stores the array object itself, which is also the suggestions
\* property of paragraphs (lines 436-438 and 338): sharedBy names the
\* EnhancedParagraph objects (pass and index) whose suggestions property is
\* the array object of the entry
CacheEntry(enhanced, suggestions, sharedBy) ==
    [enhanced |-> enhanced, suggestions |-> suggestions, sharedBy |-> sharedBy]

\* ------------------------------------------------------------------
\* processDocument: initial state of each paragraph and the enhancement loop
\* (part_000 lines 274-476)
\* ------------------------------------------------------------------
Undefined == "undefined"

\* an optional array (suggestions?: Suggestion[]): the empty set when the
\* property is undefined, the set holding the array otherwise
NoSuggestions == {}
Suggestions(list) == {list}

\* settings.enhancementMode, the default of getSettings() (types.ts line 133)
DefaultMode == "expand"

\* BuildEnhanced with the bug of testing the result cache before the kept-set
BuildEnhanced_CacheBeforeKept(para, index, changes, newParagraphs, forceRefresh, cache, styles, kept) ==
    LET contentHash == Fingerprint(para.content)
        persistedStyle == IF MapHas(styles, contentHash) THEN styles[contentHash]
                          ELSE Undefined
    IN  IF ~forceRefresh /\ MapHas(cache, contentHash)
        THEN [ original |-> para, enhanced |-> cache[contentHash].enhanced,
               status |-> "complete", error |-> Undefined,
               appliedStyle |-> persistedStyle, kept |-> FALSE,
               suggestions |-> cache[contentHash].suggestions ]
        ELSE IF MapHas(kept, contentHash) /\ kept[contentHash]
        THEN [ original |-> para, enhanced |-> para.content,
               status |-> "complete", error |-> Undefined,
               appliedStyle |-> persistedStyle, kept |-> TRUE,
               suggestions |-> NoSuggestions ]
        ELSE [ original |-> para, enhanced |-> para.content,
               status |-> "pending", error |-> Undefined,
               appliedStyle |-> persistedStyle, kept |-> FALSE,
               suggestions |-> NoSuggestions ]

\* BuildEnhanced with the bug of a needsProcessing test that leaves out the
\* result cache
BuildEnhanced_NoCacheTest(para, index, changes, newParagraphs, forceRefresh, cache, styles, kept) ==
    LET contentHash == Fingerprint(para.content)
        persistedStyle == IF MapHas(styles, contentHash) THEN styles[contentHash]
                          ELSE Undefined
        isKept == MapHas(kept, contentHash) /\ kept[contentHash]
        needsProcessing ==
            \/ forceRefresh
            \/ index \in changes.added
            \/ \E m \in changes.modified : newParagraphs[m].startLine = para.startLine
    IN  IF isKept
        THEN [ original |-> para, enhanced |-> para.content,
               status |-> "complete", error |-> Undefined,
               appliedStyle |-> persistedStyle, kept |-> TRUE,
               suggestions |-> NoSuggestions ]
        ELSE IF ~forceRefresh /\ MapHas(cache, contentHash)
        THEN [ original |-> para, enhanced |-> cache[contentHash].enhanced,
               status |-> "complete", error |-> Undefined,
               appliedStyle |-> persistedStyle, kept |-> FALSE,
               suggestions |-> cache[contentHash].suggestions ]
        ELSE IF needsProcessing
        THEN [ original |-> para, enhanced |-> para.content,
               status |-> "pending", error |-> Undefined,
               appliedStyle |-> persistedStyle, kept |-> FALSE,
               suggestions |-> NoSuggestions ]
        ELSE [ original |-> para, enhanced |-> para.content,
               status |-> "complete", error |-> Undefined,
               appliedStyle |-> persistedStyle, kept |-> FALSE,
               suggestions |-> NoSuggestions ]

\* the callback of newParagraphs.map, lines 309-364; index is 1-based,
\* changes is the result of findChangedParagraphs
BuildEnhanced(para, index, changes, newParagraphs, forceRefresh, cache, styles, kept) ==
    LET contentHash == Fingerprint(para.content)
        persistedStyle == IF MapHas(styles, contentHash) THEN styles[contentHash]
                          ELSE Undefined
        isKept == MapHas(kept, contentHash) /\ kept[contentHash]
        needsProcessing ==
            \/ forceRefresh
            \/ index \in changes.added
            \/ \E m \in changes.modified : newParagraphs[m].startLine = para.startLine
            \/ ~MapHas(cache, contentHash)
    IN  IF isKept
        THEN [ original |-> para, enhanced |-> para.content,
               status |-> "complete", error |-> Undefined,
               appliedStyle |-> persistedStyle, kept |-> TRUE,
               suggestions |-> NoSuggestions ]
        ELSE IF ~forceRefresh /\ MapHas(cache, contentHash)
        THEN [ original |-> para, enhanced |-> cache[contentHash].enhanced,
               status |-> "complete", error |-> Undefined,
               appliedStyle |-> persistedStyle, kept |-> FALSE,
               suggestions |-> cache[contentHash].suggestions ]
        ELSE IF needsProcessing
        THEN [ original |-> para, enhanced |-> para.content,
               status |-> "pending", error |-> Undefined,
               appliedStyle |-> persistedStyle, kept |-> FALSE,
               suggestions |-> NoSuggestions ]
        ELSE [ original |-> para, enhanced |-> para.content,
               status |-> "complete", error |-> Undefined,
               appliedStyle |-> persistedStyle, kept |-> FALSE,
               suggestions |-> NoSuggestions ]

\* SkipsEnhancement with the bug of leaving out the MDX type
SkipsEnhancement_NotMdx(original) ==
    \/ original.type = "code"
    \/ original.ignore
    \/ original.noEnhance

\* line 407: paragraphs the loop completes without a request
SkipsEnhancement(original) ==
    \/ original.type = "code"
    \/ original.type = "mdx"
    \/ original.ignore
    \/ original.noEnhance

\* line 413
EffectiveMode(original) ==
    IF original.styleOverride # NoStyle THEN original.styleOverride ELSE DefaultMode

\* The for loop of lines 382-460 from index i (1-based) up to its next
\* suspension: it runs until a request is issued (pc "await" at that index),
\* the list is exhausted or the token is cancelled (pc "done").  published is
\* the last list handed to panel.update on the way, Undefined if none.
RECURSIVE Advance(_, _, _, _)
Advance(list, i, cancelled, published) ==
    IF cancelled \/ i > Len(list)
    THEN [list |-> list, i |-> i, pc |-> "done", published |-> published]
    ELSE IF list[i].status # "pending"
    THEN Advance(list, i + 1, cancelled, published)
    ELSE LET processing == [list EXCEPT ![i].status = "processing"]
         IN  IF SkipsEnhancement(list[i].original)
             THEN Advance([processing EXCEPT ![i].status = "complete"], i + 1,
                          cancelled, processing)
             ELSE [list |-> processing, i |-> i, pc |-> "await", published |-> processing]

\* ------------------------------------------------------------------
\* keepParagraph: the replacement text (part_000 lines 520-537)
\* ------------------------------------------------------------------
\* the keep directive of the file kind, line 527
NoEnhanceComment(isMdx) ==
    IF isMdx
    THEN <<123, 47, 42, 32, 110, 111, 45, 101, 110, 104, 97, 110, 99, 101, 32, 42, 47, 125>>
         \* "{/* no-enhance */}"
    ELSE <<60, 33, 45, 45, 32, 110, 111, 45, 101, 110, 104, 97, 110, 99, 101, 32, 45, 45, 62>>
         \* "<!-- no-enhance -->"

\* enhancedText.split(/\n\n+/)
RECURSIVE SplitBlocks(_)
SplitBlocks(s) ==
    IF \E k \in 1..(Len(s) - 1) : s[k] = NL /\ s[k + 1] = NL
    THEN LET k == CHOOSE k \in 1..(Len(s) - 1) :
                     /\ s[k] = NL /\ s[k + 1] = NL
                     /\ \A j \in 1..(k - 1) : ~(s[j] = NL /\ s[j + 1] = NL)
             \* the first position after the run of newlines
             e == IF \E j \in k..Len(s) : s[j] # NL
                  THEN CHOOSE j \in k..Len(s) :
                         s[j] # NL /\ \A h \in k..(j - 1) : s[h] = NL
                  ELSE Len(s) + 1
         IN  <<SubSeq(s, 1, k - 1)>> \o SplitBlocks(SubSeq(s, e, Len(s)))
    ELSE <<s>>

\* .map(p => p.trim()).filter(p => p.length > 0)
RECURSIVE TrimmedNonEmpty(_)
TrimmedNonEmpty(blocks) ==
    IF Len(blocks) = 0 THEN <<>>
    ELSE LET t == Trim(blocks[1])
         IN  (IF Len(t) > 0 THEN <<t>> ELSE <<>>) \o TrimmedNonEmpty(Tail(blocks))

\* ReplacementText with the bug of joining the kept blocks with a blank line
ReplacementText_BlankLineJoin(enhancedText, isMdx) ==
    LET blocks == TrimmedNonEmpty(SplitBlocks(enhancedText))
    IN  JoinBlocks([k \in 1..Len(blocks) |-> NoEnhanceComment(isMdx) \o <<NL>> \o blocks[k]])

\* lines 530-537
ReplacementText(enhancedText, isMdx) ==
    LET blocks == TrimmedNonEmpty(SplitBlocks(enhancedText))
    IN  JoinLines([k \in 1..Len(blocks) |-> NoEnhanceComment(isMdx) \o <<NL>> \o blocks[k]])

\* ------------------------------------------------------------------
\* Lines and documents used as inputs
\* ------------------------------------------------------------------
LineA == <<65>>                              \* "A"
LineBlank == <<>>                            \* ""
LineJsxIgnore == <<123, 47, 42, 32, 97, 105, 45, 105, 103, 110, 111, 114, 101, 32, 42, 47, 125>>
                                             \* "{/* ai-ignore */}"
LineHtmlNoEnhance == <<60, 33, 45, 45, 32, 110, 111, 45, 101, 110, 104, 97, 110, 99, 101, 32, 45, 45, 62>>
                                             \* "<!-- no-enhance -->"
LineHtmlStyle == <<60, 33, 45, 45, 32, 97, 105, 45, 115, 116, 121, 108, 101, 58, 32, 99, 97, 115, 117, 97, 108, 32, 45, 45, 62>>
                                             \* "<!-- ai-style: casual -->"

\* the lines a document of the segmentation specification is made of
SegLines == {LineA, LineBlank, LineJsxIgnore, LineHtmlNoEnhance, LineHtmlStyle,
             Fence, Tilde, Dashes}

LineB == <<66>>                              \* "B"

MaxDocLines == 4

SegDocs == UNION {[1..n -> SegLines] : n \in 1..MaxDocLines}

\* the documents of the orchestration specification: "A" alone, and "A"
\* below an ignored paragraph "B"
OrchDocs == { <<LineA>>,
              <<LineJsxIgnore, LineB, LineBlank, LineA>> }

\* the documents of the idempotence specification: one paragraph, and two
\* paragraphs with the same content
IdemDocs == { <<LineA>>,
              <<LineA, LineBlank, LineA>> }

\* a suggestion as parseCombinedResponse returns it (types.ts lines 175-181)
SuggestionT == [ category |-> "idea", title |-> <<84>>, description |-> <<68>>,
                 examples |-> << <<69>> >> ]

\* the results aiService.enhance can resolve with: "X" without suggestions,
\* "Y" with one suggestion
Responses == { [enhanced |-> <<88>>, suggestions |-> NoSuggestions],
               [enhanced |-> <<89>>, suggestions |-> Suggestions(<<SuggestionT>>)] }

\* bounds on the number of processDocument invocations, keep commands and
\* user edits, and on the length of an enhanced text given to keepParagraph
MaxPasses == 2
MaxKeeps == 1
MaxEdits == 2
MaxTextLen == 5
\* bound on the number of reenhanceParagraph, applySuggestion and
\* improveSelection commands
MaxCommands == 2

\* the enhanced texts of the replacement specification: the strings of
\* "X", "Y", newline and space up to MaxTextLen characters
ReplTexts == UNION {[1..n -> {88, 89, 10, 32}] : n \in 0..MaxTextLen}

ReplResponses == {[enhanced |-> t, suggestions |-> NoSuggestions] : t \in ReplTexts}

\* the uris of the two documents an editor can show
UriA == "a.md"
UriB == "b.md"

VARIABLES
    doc,                  \* the lines of the document (TextDocument)
    isMdxFile,            \* fileName.toLowerCase().endsWith('.mdx')
    extracted,            \* the value returned by extractParagraphs(doc.getText())
    segPc,                \* "input" before that call, "done" after it
    enhancedCache,        \* Map: content hash -> {enhanced, suggestions}
    appliedStyleCache,    \* Map: content hash -> mode
    keptParagraphsCache,  \* Map: content hash -> boolean
    currentParagraphs,    \* the paragraphs of the last pass
    idCounter,            \* MarkdownProcessor.idCounter
    passes,               \* the processDocument invocations, oldest first: the
                          \* enhancedParagraphs array, loop index and token of each
    panelContent,         \* the list last handed to panel.update and its pass
    debounceTimer,        \* TRUE while a debounce timer is pending
    keepOp,               \* the keepParagraph call suspended at editor.edit
    requestLog,           \* history: the enhancement requests issued so far
    quiet,                \* history: nothing but the steps of the latest pass
                          \* has happened since that pass started
    keeps,                \* history: number of keepParagraph commands so far
    edits,                \* history: number of user edits so far
    call,                 \* the call of a MarkdownProcessor method and its arguments
    returned,             \* the value that call returned, once it has
    activeUri,            \* the uri of the document in the active editor
    commands              \* the reenhanceParagraph, applySuggestion and
                          \* improveSelection calls made so far, oldest first, and
                          \* whether each is suspended on its request

vars == <<doc, isMdxFile, extracted, segPc, enhancedCache, appliedStyleCache,
          keptParagraphsCache, currentParagraphs, idCounter, passes, panelContent,
          debounceTimer, keepOp, requestLog, quiet, keeps, edits, call, returned,
          activeUri, commands>>

\* the variables of the specifications of single MarkdownProcessor calls
segVars == <<extracted, segPc, call, returned>>
orchVars == <<enhancedCache, appliedStyleCache, keptParagraphsCache, currentParagraphs,
              idCounter, passes, panelContent, debounceTimer, keepOp, requestLog,
              quiet, keeps, edits, commands>>

\* TextDocument.getText()
getText(d) == JoinLines(d)

\* currentEnhancedParagraphs: the array of the latest pass (line 367)
currentEnhancedParagraphs ==
    IF Len(passes) = 0 THEN <<>> ELSE passes[Len(passes)].list

\* no call of buildContext or findChangedParagraphs is followed
NoCall == [fn |-> "none"]
NotReturned == [done |-> FALSE, value |-> <<>>]

KeepIdle(result) ==
    [pc |-> "idle", pass |-> 0, index |-> 0, enhanced |-> <<>>, replacement |-> <<>>,
     result |-> result]

\* the module-level state after activate()
OrchInit ==
    /\ enhancedCache = EmptyMap
    /\ appliedStyleCache = EmptyMap
    /\ keptParagraphsCache = EmptyMap
    /\ currentParagraphs = <<>>
    /\ idCounter = 0
    /\ passes = <<>>
    /\ panelContent = Undefined
    /\ debounceTimer = FALSE
    /\ keepOp = KeepIdle("none")
    /\ requestLog = {}
    /\ quiet = TRUE
    /\ keeps = 0
    /\ edits = 0
    /\ commands = <<>>

\* ------------------------------------------------------------------
\* Specification of the segmenter as a function of the document text
\* ------------------------------------------------------------------
SegInit ==
    /\ doc \in SegDocs
    /\ isMdxFile = FALSE
    /\ activeUri = UriA
    /\ extracted = <<>>
    /\ segPc = "input"
    /\ call = NoCall
    /\ returned = NotReturned
    /\ OrchInit

SegExtract ==
    /\ segPc = "input"
    /\ extracted' = extractParagraphs(getText(doc))
    /\ segPc' = "done"
    /\ UNCHANGED <<doc, isMdxFile, activeUri, call, returned, orchVars>>

SegNext == SegExtract

SegSpec == SegInit /\ [][SegNext]_vars

\* ------------------------------------------------------------------
\* Specification of findChangedParagraphs and buildContext as functions of
\* their arguments
\* ------------------------------------------------------------------
\* bounds on the paragraph lists given to the two methods: the largest
\* startLine, the number of paragraphs, and the largest windowSize
MaxStartLine == 3
MaxParagraphs == 3
MaxWindow == 3

\* the fields of a Paragraph the two methods read, for one-line paragraphs
\* with content "A" or "B"
CallParagraphs == [startLine : 0..MaxStartLine, content : {LineA, LineB}]

\* paragraph lists as extractParagraphs returns them: startLine ascending
CallLists ==
    {l \in UNION {[1..n -> CallParagraphs] : n \in 0..MaxParagraphs} :
        \A k \in 1..(Len(l) - 1) : l[k].startLine < l[k + 1].startLine}

DiffCalls ==
    [fn : {"findChangedParagraphs"}, oldParagraphs : CallLists, newParagraphs : CallLists]

\* the callers pass the index of a paragraph of the list (part_000 lines 399
\* and 745)
ContextCalls ==
    {c \in [fn : {"buildContext"}, paragraphs : CallLists,
            currentIndex : 0..(MaxParagraphs - 1), windowSize : 0..MaxWindow] :
        c.currentIndex < Len(c.paragraphs)}

CallInit ==
    /\ doc = <<LineA>>
    /\ isMdxFile = FALSE
    /\ activeUri = UriA
    /\ extracted = <<>>
    /\ segPc = "unused"
    /\ call \in DiffCalls \cup ContextCalls
    /\ returned = NotReturned
    /\ OrchInit

CallFindChangedParagraphs ==
    /\ call.fn = "findChangedParagraphs"
    /\ ~returned.done
    /\ returned' = [done |-> TRUE,
                    value |-> findChangedParagraphs(call.oldParagraphs, call.newParagraphs)]
    /\ UNCHANGED <<doc, isMdxFile, activeUri, extracted, segPc, call, orchVars>>

CallBuildContext ==
    /\ call.fn = "buildContext"
    /\ ~returned.done
    /\ returned' = [done |-> TRUE,
                    value |-> buildContext(call.paragraphs, call.currentIndex, call.windowSize)]
    /\ UNCHANGED <<doc, isMdxFile, activeUri, extracted, segPc, call, orchVars>>

CallNext ==
    \/ CallFindChangedParagraphs
    \/ CallBuildContext

CallSpec == CallInit /\ [][CallNext]_vars

\* ------------------------------------------------------------------
\* The orchestrator (part_000)
\* ------------------------------------------------------------------
\* the cache after the cache hits of pass p (line 338, `suggestions:
\* cached.suggestions`): a paragraph of the initial list that has suggestions
\* got them from the entry of its content, and holds the array of that entry
SharedWithHits(cache, list, p) ==
    [h \in DOMAIN cache |->
        [cache[h] EXCEPT !.sharedBy = @ \cup
            {[pass |-> p, index |-> k] :
                k \in {j \in 1..Len(list) :
                          /\ list[j].suggestions # NoSuggestions
                          /\ Fingerprint(list[j].original.content) = h}}]]

\* the body of processDocument once the loop has run up to its first
\* suspension: the module state is updated and the pass is recorded.  scan is
\* the result of the segmentation, run the result of Advance on the initial list
RecordPass(trigger, forceRefresh, cache, scan, run) ==
    /\ Len(passes) < MaxPasses
    /\ passes' = Append([k \in 1..Len(passes) |-> [passes[k] EXCEPT !.cancelled = TRUE]],
                        [ list |-> run.list, i |-> run.i, pc |-> run.pc,
                          cancelled |-> FALSE,
                          forceRefresh |-> forceRefresh,
                          trigger |-> trigger,
                          keptAtStart |-> {f \in DOMAIN keptParagraphsCache :
                                              keptParagraphsCache[f]},
                          enhancedAtStart |-> DOMAIN appliedStyleCache,
                          editsAtStart |-> edits,
                          uri |-> activeUri,
                          afterQuiet |-> /\ Len(passes) > 0
                                         /\ passes[Len(passes)].pc = "done"
                                         /\ quiet
                                         /\ cache = enhancedCache ])
    /\ currentParagraphs' = scan.paragraphs
    /\ idCounter' = scan.idCounter
    /\ enhancedCache' = SharedWithHits(cache, run.list, Len(passes) + 1)
    /\ panelContent' = [pass |-> Len(passes) + 1, list |-> run.published]
    /\ requestLog' = requestLog \cup
          (IF run.pc = "await"
           THEN {[pass |-> Len(passes) + 1, index |-> run.i, by |-> "loop"]} ELSE {})
    /\ quiet' = TRUE
    /\ UNCHANGED <<doc, isMdxFile, activeUri, commands, segVars, appliedStyleCache, keptParagraphsCache,
                   keepOp, keeps, edits>>

\* newParagraphs.map(...), lines 309-364
InitialList(newParagraphs, changes, forceRefresh, cache) ==
    [k \in 1..Len(newParagraphs) |->
        BuildEnhanced(newParagraphs[k], k, changes, newParagraphs, forceRefresh,
                      cache, appliedStyleCache, keptParagraphsCache)]

\* RunPass with the bug of a loop that starts at the second paragraph
RunPass_StartsAtSecond(trigger, forceRefresh, cache, scan, enhancedParagraphs) ==
    RecordPass(trigger, forceRefresh, cache, scan,
               Advance(enhancedParagraphs, 2, FALSE, enhancedParagraphs))

\* lines 366-429: the initial list is published and the loop starts
RunPass(trigger, forceRefresh, cache, scan, enhancedParagraphs) ==
    RecordPass(trigger, forceRefresh, cache, scan,
               Advance(enhancedParagraphs, 1, FALSE, enhancedParagraphs))

\* lines 302-364, given the result of the segmentation
ProcessParagraphs(trigger, forceRefresh, cache, scan) ==
    RunPass(trigger, forceRefresh, cache, scan,
            InitialList(scan.paragraphs,
                        findChangedParagraphs(currentParagraphs, scan.paragraphs),
                        forceRefresh, cache))

\* processDocument(document, context, forceRefresh) up to its first
\* suspension, lines 279-429; cache is enhancedCache as the calling handler
\* left it
StartPass(trigger, forceRefresh, cache) ==
    ProcessParagraphs(trigger, forceRefresh, cache, ScanText(getText(doc), idCounter))

\* onActiveEditorChanged, lines 210-223
OnActiveEditorChanged ==
    /\ StartPass("editorSwitch", FALSE, enhancedCache)
    /\ UNCHANGED debounceTimer

\* DebounceFire with the bug of a timer that stays pending after it fired
DebounceFire_TimerStaysPending ==
    /\ debounceTimer
    /\ debounceTimer' = debounceTimer
    /\ StartPass("edit", FALSE, enhancedCache)

\* the timer callback set by onDocumentChanged, lines 248-250
DebounceFire ==
    /\ debounceTimer
    /\ debounceTimer' = FALSE
    /\ StartPass("edit", FALSE, enhancedCache)

\* the onDidSaveTextDocument listener, lines 135-140
OnDidSave ==
    /\ StartPass("save", TRUE, enhancedCache)
    /\ UNCHANGED debounceTimer

\* RefreshEnhancement with the bug of not clearing the result cache
RefreshEnhancement_KeepsCache ==
    /\ StartPass("refresh", TRUE, enhancedCache)
    /\ UNCHANGED debounceTimer

\* refreshEnhancement, lines 193-205
RefreshEnhancement ==
    /\ StartPass("refresh", TRUE, EmptyMap)
    /\ UNCHANGED debounceTimer

\* onConfigurationChanged, lines 256-269
OnConfigurationChanged ==
    /\ StartPass("config", FALSE, EmptyMap)
    /\ UNCHANGED debounceTimer

\* ResumeLoop with the bug of a loop that does not test its token
ResumeLoop_IgnoresToken(p, list, cache, styles) ==
    LET pass == passes[p]
        run == Advance(list, pass.i + 1, FALSE, list)
    IN  /\ passes' = [passes EXCEPT ![p] = [@ EXCEPT !.list = run.list,
                                                     !.i = run.i,
                                                     !.pc = run.pc]]
        /\ enhancedCache' = cache
        /\ appliedStyleCache' = styles
        /\ panelContent' = [pass |-> p, list |-> run.published]
        /\ requestLog' = requestLog \cup
              (IF run.pc = "await"
               THEN {[pass |-> p, index |-> run.i, by |-> "loop"]} ELSE {})
        /\ quiet' = (quiet /\ p = Len(passes))
        /\ UNCHANGED <<doc, isMdxFile, activeUri, commands, segVars, keptParagraphsCache, currentParagraphs,
                       idCounter, debounceTimer, keepOp, keeps, edits>>

\* the loop of pass p resumes after its request: the statements after the
\* await (success: lines 431-450, failure: lines 452-456), the publish of line
\* 459 and the following iterations up to the next suspension
ResumeLoop(p, list, cache, styles) ==
    LET pass == passes[p]
        run == Advance(list, pass.i + 1, pass.cancelled, list)
    IN  /\ passes' = [passes EXCEPT ![p] = [@ EXCEPT !.list = run.list,
                                                     !.i = run.i,
                                                     !.pc = run.pc]]
        /\ enhancedCache' = cache
        /\ appliedStyleCache' = styles
        /\ panelContent' = [pass |-> p, list |-> run.published]
        /\ requestLog' = requestLog \cup
              (IF run.pc = "await"
               THEN {[pass |-> p, index |-> run.i, by |-> "loop"]} ELSE {})
        /\ quiet' = (quiet /\ p = Len(passes))
        /\ UNCHANGED <<doc, isMdxFile, activeUri, commands, segVars, keptParagraphsCache, currentParagraphs,
                       idCounter, debounceTimer, keepOp, keeps, edits>>

\* EnhanceSucceeds with the bug of caching the text without the suggestions
EnhanceSucceeds_CacheDropsSuggestions(p, response) ==
    /\ p \in 1..Len(passes)
    /\ passes[p].pc = "await"
    /\ LET i == passes[p].i
           original == passes[p].list[i].original
           effectiveMode == EffectiveMode(original)
           contentHash == Fingerprint(original.content)
           list == [passes[p].list EXCEPT
                       ![i].enhanced = response.enhanced,
                       ![i].status = "complete",
                       ![i].appliedStyle = effectiveMode,
                       ![i].suggestions =
                           IF \E l \in response.suggestions : Len(l) > 0
                           THEN response.suggestions ELSE @]
       IN  ResumeLoop(p, list,
                      MapSet(enhancedCache, contentHash,
                             CacheEntry(response.enhanced, NoSuggestions, {})),
                      MapSet(appliedStyleCache, contentHash, effectiveMode))

\* aiService.enhance resolves with response for the paragraph pass p awaits
EnhanceSucceeds(p, response) ==
    /\ p \in 1..Len(passes)
    /\ passes[p].pc = "await"
    /\ LET i == passes[p].i
           original == passes[p].list[i].original
           effectiveMode == EffectiveMode(original)
           contentHash == Fingerprint(original.content)
           list == [passes[p].list EXCEPT
                       ![i].enhanced = response.enhanced,
                       ![i].status = "complete",
                       ![i].appliedStyle = effectiveMode,
                       ![i].suggestions =
                           IF \E l \in response.suggestions : Len(l) > 0
                           THEN response.suggestions ELSE @]
       IN  ResumeLoop(p, list,
                      MapSet(enhancedCache, contentHash,
                             CacheEntry(response.enhanced, response.suggestions,
                                        IF \E l \in response.suggestions : Len(l) > 0
                                        THEN {[pass |-> p, index |-> i]} ELSE {})),
                      MapSet(appliedStyleCache, contentHash, effectiveMode))

\* EnhanceFails with the bug of leaving the loop at the first failure
EnhanceFails_EndsLoop(p) ==
    /\ p \in 1..Len(passes)
    /\ passes[p].pc = "await"
    /\ LET i == passes[p].i
           list == [passes[p].list EXCEPT ![i].status = "error", ![i].error = "failed"]
       IN  /\ passes' = [passes EXCEPT ![p] = [@ EXCEPT !.list = list, !.i = i + 1,
                                                        !.pc = "done"]]
           /\ panelContent' = [pass |-> p, list |-> list]
           /\ quiet' = (quiet /\ p = Len(passes))
           /\ UNCHANGED <<doc, isMdxFile, activeUri, commands, segVars, enhancedCache, appliedStyleCache,
                          keptParagraphsCache, currentParagraphs, idCounter,
                          debounceTimer, keepOp, requestLog, keeps, edits>>

\* EnhanceFails with the bug of a catch block that leaves the status as it is
EnhanceFails_StaysProcessing(p) ==
    /\ p \in 1..Len(passes)
    /\ passes[p].pc = "await"
    /\ LET i == passes[p].i
           list == [passes[p].list EXCEPT ![i].error = "failed"]
       IN  ResumeLoop(p, list, enhancedCache, appliedStyleCache)

\* aiService.enhance rejects
EnhanceFails(p) ==
    /\ p \in 1..Len(passes)
    /\ passes[p].pc = "await"
    /\ LET i == passes[p].i
           list == [passes[p].list EXCEPT ![i].status = "error", ![i].error = "failed"]
       IN  ResumeLoop(p, list, enhancedCache, appliedStyleCache)

\* the user edits the document: the text becomes d and onDocumentChanged
\* (lines 228-251) restarts the debounce timer
EditDocument(d) ==
    /\ d # doc
    /\ edits < MaxEdits
    /\ edits' = edits + 1
    /\ doc' = d
    /\ debounceTimer' = TRUE
    /\ quiet' = FALSE
    /\ UNCHANGED <<isMdxFile, activeUri, commands, segVars, enhancedCache, appliedStyleCache,
                   keptParagraphsCache, currentParagraphs, idCounter, passes,
                   panelContent, keepOp, requestLog, keeps>>

\* KeepStart with the bug of clamping the range to the end of the document
\* instead of failing when endLine is past it
KeepStart_ClampsEndLine(k) ==
    /\ keepOp.pc = "idle"
    /\ keeps < MaxKeeps
    /\ k \in 1..Len(currentEnhancedParagraphs)
    /\ LET para == currentEnhancedParagraphs[k]
           enhancedText == IF Len(para.enhanced) > 0 THEN para.enhanced
                           ELSE para.original.content
           replacementText == ReplacementText(enhancedText, isMdxFile)
           startLine == para.original.startLine
           endLine == para.original.endLine
       IN  /\ doc' = SubSeq(doc, 1, Min(startLine, Len(doc))) \o SplitLines(replacementText)
                        \o SubSeq(doc, endLine + 2, Len(doc))
           /\ debounceTimer' = TRUE
           /\ keepOp' = [pc |-> "await", pass |-> Len(passes), index |-> k,
                         enhanced |-> para.enhanced,
                         replacement |-> replacementText, result |-> "none"]
    /\ keeps' = keeps + 1
    /\ quiet' = FALSE
    /\ UNCHANGED <<isMdxFile, activeUri, commands, segVars, enhancedCache, appliedStyleCache,
                   keptParagraphsCache, currentParagraphs, idCounter, passes,
                   panelContent, requestLog, edits>>

\* KeepStart with the bug of marking the paragraph as kept before the edit
KeepStart_KeptBeforeWrite(k) ==
    /\ keepOp.pc = "idle"
    /\ keeps < MaxKeeps
    /\ k \in 1..Len(currentEnhancedParagraphs)
    /\ LET para == currentEnhancedParagraphs[k]
           enhancedText == IF Len(para.enhanced) > 0 THEN para.enhanced
                           ELSE para.original.content
           replacementText == ReplacementText(enhancedText, isMdxFile)
           startLine == para.original.startLine
           endLine == para.original.endLine
       IN  /\ passes' = [passes EXCEPT ![Len(passes)].list[k].kept = TRUE]
           /\ keptParagraphsCache' = MapSet(keptParagraphsCache,
                                            Fingerprint(para.original.content), TRUE)
           /\ IF endLine >= Len(doc)
              THEN /\ keepOp' = KeepIdle("failed")
                   /\ UNCHANGED <<doc, debounceTimer>>
              ELSE /\ doc' = SubSeq(doc, 1, startLine) \o SplitLines(replacementText)
                                \o SubSeq(doc, endLine + 2, Len(doc))
                   /\ debounceTimer' = TRUE
                   /\ keepOp' = [pc |-> "await", pass |-> Len(passes), index |-> k,
                                 enhanced |-> para.enhanced,
                                 replacement |-> replacementText, result |-> "none"]
    /\ keeps' = keeps + 1
    /\ quiet' = FALSE
    /\ UNCHANGED <<isMdxFile, activeUri, commands, segVars, enhancedCache, appliedStyleCache,
                   currentParagraphs, idCounter, panelContent, requestLog, edits>>

\* keepParagraph(id) for the paragraph at index k of the current list, up to
\* the await of editor.edit (lines 505-550); lineAt(endLine) throws when the
\* line does not exist and the catch block reports the failure
KeepStart(k) ==
    /\ keepOp.pc = "idle"
    /\ keeps < MaxKeeps
    /\ k \in 1..Len(currentEnhancedParagraphs)
    /\ LET para == currentEnhancedParagraphs[k]
           enhancedText == IF Len(para.enhanced) > 0 THEN para.enhanced
                           ELSE para.original.content
           replacementText == ReplacementText(enhancedText, isMdxFile)
           startLine == para.original.startLine
           endLine == para.original.endLine
       IN  IF endLine >= Len(doc)
           THEN /\ keepOp' = KeepIdle("failed")
                /\ UNCHANGED <<doc, debounceTimer>>
           ELSE /\ doc' = SubSeq(doc, 1, startLine) \o SplitLines(replacementText)
                             \o SubSeq(doc, endLine + 2, Len(doc))
                /\ debounceTimer' = TRUE
                /\ keepOp' = [pc |-> "await", pass |-> Len(passes), index |-> k,
                              enhanced |-> para.enhanced,
                              replacement |-> replacementText, result |-> "none"]
    /\ keeps' = keeps + 1
    /\ quiet' = FALSE
    /\ UNCHANGED <<isMdxFile, activeUri, commands, segVars, enhancedCache, appliedStyleCache,
                   keptParagraphsCache, currentParagraphs, idCounter, passes,
                   panelContent, requestLog, edits>>

\* the cache after `para.suggestions = []` (line 554): the paragraph object
\* holds a new array and no longer the array of a cache entry
Unshared(cache, holder) ==
    [h \in DOMAIN cache |-> [cache[h] EXCEPT !.sharedBy = @ \ {holder}]]

\* keepParagraph after the edit was applied, lines 552-565
KeepDone ==
    /\ keepOp.pc = "await"
    /\ LET para == passes[keepOp.pass].list[keepOp.index]
           contentHash == Fingerprint(para.original.content)
           updated == [passes EXCEPT ![keepOp.pass].list[keepOp.index].kept = TRUE,
                                     ![keepOp.pass].list[keepOp.index].suggestions =
                                         Suggestions(<<>>)]
       IN  /\ passes' = updated
           /\ keptParagraphsCache' = MapSet(keptParagraphsCache, contentHash, TRUE)
           /\ enhancedCache' = Unshared(enhancedCache,
                                        [pass |-> keepOp.pass, index |-> keepOp.index])
           /\ panelContent' = [pass |-> Len(passes), list |-> updated[Len(passes)].list]
    /\ keepOp' = KeepIdle("ok")
    /\ quiet' = FALSE
    /\ UNCHANGED <<doc, isMdxFile, activeUri, commands, segVars, appliedStyleCache,
                   currentParagraphs, idCounter, debounceTimer, requestLog, keeps, edits>>

\* ------------------------------------------------------------------
\* The commands of the panel on one paragraph: reenhanceParagraph,
\* applySuggestion and improveSelection (part_000 lines 575-794)
\* ------------------------------------------------------------------
\* the array para.suggestions, empty when the property is undefined
SuggestionList(para) ==
    IF para.suggestions = NoSuggestions THEN <<>>
    ELSE CHOOSE l \in para.suggestions : TRUE

\* Array.prototype.splice(i, 1) with i 1-based; no element is removed when i
\* is past the end
RemoveAt(a, i) ==
    IF i \in 1..Len(a) THEN SubSeq(a, 1, i - 1) \o SubSeq(a, i + 1, Len(a)) ELSE a

\* the EnhancedParagraph object the command c works on
CommandPara(c) == passes[commands[c].pass].list[commands[c].index]

\* a command call: the paragraph object it holds (pass and index), its
\* arguments, and for applySuggestion the Suggestion object it holds, named
\* by its title, with the examples that object has now, and exampleText
CommandCall(kind, k, mode, suggestionIndex, exampleIndex, title, examples, exampleText) ==
    [ kind |-> kind, pc |-> "await", pass |-> Len(passes), index |-> k, mode |-> mode,
      suggestionIndex |-> suggestionIndex, exampleIndex |-> exampleIndex,
      title |-> title, examples |-> examples, exampleText |-> exampleText,
      outcome |-> "none" ]

\* the start of the three commands: the paragraph at index k of the current
\* list is set to processing and the list is published (lines 604-606,
\* 667-669 and 730-732); started is the record of the suspended call
StartCommand(k, started, requests) ==
    /\ Len(commands) < MaxCommands
    /\ passes' = [passes EXCEPT ![Len(passes)].list[k].status = "processing"]
    /\ panelContent' = [pass |-> Len(passes),
                        list |-> [currentEnhancedParagraphs EXCEPT ![k].status = "processing"]]
    /\ commands' = Append(commands, started)
    /\ requestLog' = requestLog \cup requests
    /\ quiet' = FALSE
    /\ UNCHANGED <<doc, isMdxFile, activeUri, segVars, enhancedCache, appliedStyleCache,
                   keptParagraphsCache, currentParagraphs, idCounter, debounceTimer,
                   keepOp, keeps, edits>>

\* the end of a command c: the lists of the passes become lists, the list of
\* the latest pass is published, and the caches and the calls become cache,
\* styles and calls
FinishCommandIn(c, lists, outcome, cache, styles, calls) ==
    /\ passes' = lists
    /\ panelContent' = [pass |-> Len(passes), list |-> lists[Len(passes)].list]
    /\ commands' = [calls EXCEPT ![c].pc = "done", ![c].outcome = outcome]
    /\ enhancedCache' = cache
    /\ appliedStyleCache' = styles
    /\ quiet' = FALSE
    /\ UNCHANGED <<doc, isMdxFile, activeUri, segVars, keptParagraphsCache,
                   currentParagraphs, idCounter, debounceTimer, keepOp, requestLog,
                   keeps, edits>>

\* the end of a command c that changes the paragraph object it holds, which
\* becomes para
FinishCommand(c, para, outcome, cache, styles, calls) ==
    FinishCommandIn(c, [passes EXCEPT ![commands[c].pass].list[commands[c].index] = para],
                    outcome, cache, styles, calls)

\* the call c of the given kind is suspended on its request
Suspended(c, kind) ==
    /\ c \in 1..Len(commands)
    /\ commands[c].kind = kind
    /\ commands[c].pc = "await"

\* reenhanceParagraph(id, mode) up to its request, lines 706-762
ReenhanceStart(k, mode) ==
    /\ k \in 1..Len(currentEnhancedParagraphs)
    /\ ~currentEnhancedParagraphs[k].original.ignore
    /\ ~currentEnhancedParagraphs[k].original.noEnhance
    /\ StartCommand(k, CommandCall("reenhance", k, mode, 0, 0, <<>>, <<>>, <<>>),
                    {[pass |-> Len(passes), index |-> k, by |-> "reenhance"]})

\* ReenhanceSucceeds with the bug of not persisting the applied style
ReenhanceSucceeds_StyleNotPersisted(c, response) ==
    /\ Suspended(c, "reenhance")
    /\ FinishCommand(c, [CommandPara(c) EXCEPT !.enhanced = response.enhanced,
                                               !.status = "complete",
                                               !.appliedStyle = commands[c].mode],
                     "ok",
                     MapSet(enhancedCache, Fingerprint(CommandPara(c).original.content),
                            CacheEntry(response.enhanced, response.suggestions, {})),
                     appliedStyleCache,
                     commands)

\* the request of reenhanceParagraph resolves with response, lines 764-778
ReenhanceSucceeds(c, response) ==
    /\ Suspended(c, "reenhance")
    /\ FinishCommand(c, [CommandPara(c) EXCEPT !.enhanced = response.enhanced,
                                               !.status = "complete",
                                               !.appliedStyle = commands[c].mode],
                     "ok",
                     MapSet(enhancedCache, Fingerprint(CommandPara(c).original.content),
                            CacheEntry(response.enhanced, response.suggestions, {})),
                     MapSet(appliedStyleCache, Fingerprint(CommandPara(c).original.content),
                            commands[c].mode),
                     commands)

\* the request of reenhanceParagraph rejects, lines 788-793
ReenhanceFails(c) ==
    /\ Suspended(c, "reenhance")
    /\ FinishCommand(c, [CommandPara(c) EXCEPT !.status = "error", !.error = "failed"],
                     "failed", enhancedCache, appliedStyleCache, commands)

\* applySuggestion(id, suggestionIndex, exampleIndex) up to its request, lines
\* 575-614; the two indices are 1-based here
ApplyStart(k, suggestionIndex, exampleIndex) ==
    /\ k \in 1..Len(currentEnhancedParagraphs)
    /\ suggestionIndex \in 1..Len(SuggestionList(currentEnhancedParagraphs[k]))
    /\ LET suggestion == SuggestionList(currentEnhancedParagraphs[k])[suggestionIndex]
       IN  /\ exampleIndex \in 1..Len(suggestion.examples)
           /\ Len(suggestion.examples[exampleIndex]) > 0
           /\ StartCommand(k, CommandCall("apply", k, NoStyle, suggestionIndex, exampleIndex,
                                          suggestion.title, suggestion.examples,
                                          suggestion.examples[exampleIndex]),
                           {})

\* the array para.suggestions after lines 620-627 of the call applied, list
\* being the array before
SuggestionsAfterApply(applied, list) ==
    IF Len(applied.examples) = 1
    THEN RemoveAt(list, applied.suggestionIndex)
    ELSE [j \in 1..Len(list) |->
             IF list[j].title = applied.title
             THEN [list[j] EXCEPT !.examples = RemoveAt(applied.examples,
                                                        applied.exampleIndex)]
             ELSE list[j]]

\* the paragraph objects whose suggestions property is the array object that
\* the paragraph of the call c holds: the paragraph itself and, when its array
\* is the one of the cache entry of its content, the others that share it
SharingWith(c) ==
    LET holder == [pass |-> commands[c].pass, index |-> commands[c].index]
        contentHash == Fingerprint(CommandPara(c).original.content)
    IN  IF MapHas(enhancedCache, contentHash)
           /\ holder \in enhancedCache[contentHash].sharedBy
        THEN enhancedCache[contentHash].sharedBy
        ELSE {holder}

\* the array of the paragraph of the call c is the array of a cache entry
SharesWithCache(c) ==
    /\ MapHas(enhancedCache, Fingerprint(CommandPara(c).original.content))
    /\ [pass |-> commands[c].pass, index |-> commands[c].index]
          \in enhancedCache[Fingerprint(CommandPara(c).original.content)].sharedBy

\* the calls after lines 620-627 of the call c: the other suspended calls
\* that hold the same Suggestion object see its examples spliced
CallsAfterApply(c) ==
    [d \in 1..Len(commands) |->
        IF /\ d # c
           /\ commands[d].kind = "apply"
           /\ commands[d].pc = "await"
           /\ [pass |-> commands[d].pass, index |-> commands[d].index] \in SharingWith(c)
           /\ commands[d].title = commands[c].title
           /\ Len(commands[c].examples) # 1
        THEN [commands[d] EXCEPT !.examples = RemoveAt(commands[c].examples,
                                                       commands[c].exampleIndex)]
        ELSE commands[d]]

\* para.suggestions after lines 620-627 of the call c
SpliceResult(c) ==
    IF CommandPara(c).suggestions = NoSuggestions THEN NoSuggestions
    ELSE Suggestions(SuggestionsAfterApply(commands[c], SuggestionList(CommandPara(c))))

\* the lists of the passes after lines 616-627 of the call c: the paragraph
\* gets the merged text, and the splice, made in place, shows in every
\* paragraph object that holds the same array
ListsAfterApply(c, mergedText, suggestions, holders) ==
    [p \in 1..Len(passes) |->
        [passes[p] EXCEPT !.list =
            [k \in 1..Len(passes[p].list) |->
                IF p = commands[c].pass /\ k = commands[c].index
                THEN [passes[p].list[k] EXCEPT !.enhanced = mergedText,
                                               !.status = "complete",
                                               !.suggestions = suggestions]
                ELSE IF [pass |-> p, index |-> k] \in holders
                THEN [passes[p].list[k] EXCEPT !.suggestions = suggestions]
                ELSE passes[p].list[k]]]]

\* the cache after lines 620-627 of the call c: the entry whose array the
\* paragraph holds has the spliced array
CacheAfterApply(c, suggestions) ==
    IF SharesWithCache(c)
    THEN [enhancedCache EXCEPT
             ![Fingerprint(CommandPara(c).original.content)].suggestions = suggestions]
    ELSE enhancedCache

\* aiService.mergeExample resolves with mergedText, lines 616-636
ApplySucceeds(c, mergedText) ==
    /\ Suspended(c, "apply")
    /\ FinishCommandIn(c, ListsAfterApply(c, mergedText, SpliceResult(c), SharingWith(c)),
                       "ok", CacheAfterApply(c, SpliceResult(c)),
                       appliedStyleCache, CallsAfterApply(c))

\* aiService.mergeExample rejects, lines 640-645
ApplyFails(c) ==
    /\ Suspended(c, "apply")
    /\ FinishCommand(c, [CommandPara(c) EXCEPT !.status = "complete"],
                     "failed", enhancedCache, appliedStyleCache, commands)

\* improveSelection(id, selectedText, instruction) up to its request, lines
\* 651-677
ImproveStart(k) ==
    /\ k \in 1..Len(currentEnhancedParagraphs)
    /\ StartCommand(k, CommandCall("improve", k, NoStyle, 0, 0, <<>>, <<>>, <<>>), {})

\* aiService.improveSelection resolves with improvedText, lines 679-694
ImproveSucceeds(c, improvedText) ==
    /\ Suspended(c, "improve")
    /\ FinishCommand(c, [CommandPara(c) EXCEPT !.enhanced = improvedText,
                                               !.status = "complete"],
                     "ok", enhancedCache, appliedStyleCache, commands)

\* ImproveFails with the bug of marking the paragraph as failed
ImproveFails_MarksError(c) ==
    /\ Suspended(c, "improve")
    /\ FinishCommand(c, [CommandPara(c) EXCEPT !.status = "error"],
                     "failed", enhancedCache, appliedStyleCache, commands)

\* aiService.improveSelection rejects, lines 695-700
ImproveFails(c) ==
    /\ Suspended(c, "improve")
    /\ FinishCommand(c, [CommandPara(c) EXCEPT !.status = "complete"],
                     "failed", enhancedCache, appliedStyleCache, commands)

Init ==
    /\ doc = <<LineA>>
    /\ isMdxFile = FALSE
    /\ activeUri = UriA
    /\ extracted = <<>>
    /\ segPc = "unused"
    /\ call = NoCall
    /\ returned = NotReturned
    /\ OrchInit

Next ==
    \/ OnActiveEditorChanged
    \/ DebounceFire
    \/ OnDidSave
    \/ RefreshEnhancement
    \/ \E p \in 1..Len(passes) : \E response \in Responses : EnhanceSucceeds(p, response)
    \/ \E p \in 1..Len(passes) : EnhanceFails(p)
    \/ \E d \in OrchDocs : EditDocument(d)

Spec == Init /\ [][Next]_vars

\* ------------------------------------------------------------------
\* Specification of repeated passes without forceRefresh: editor switches and
\* debounced edits over IdemDocs
\* ------------------------------------------------------------------
IdemNext ==
    \/ OnActiveEditorChanged
    \/ DebounceFire
    \/ \E p \in 1..Len(passes) : \E response \in Responses : EnhanceSucceeds(p, response)
    \/ \E p \in 1..Len(passes) : EnhanceFails(p)
    \/ \E d \in IdemDocs : EditDocument(d)

IdemSpec == Init /\ [][IdemNext]_vars

\* ------------------------------------------------------------------
\* Specification of keepParagraph followed by further passes, over a document
\* of two paragraphs with the same content
\* ------------------------------------------------------------------
KeepInit ==
    /\ doc = <<LineA, LineBlank, LineA>>
    /\ isMdxFile = FALSE
    /\ activeUri = UriA
    /\ extracted = <<>>
    /\ segPc = "unused"
    /\ call = NoCall
    /\ returned = NotReturned
    /\ OrchInit

KeepNext ==
    \/ OnActiveEditorChanged
    \/ DebounceFire
    \/ OnDidSave
    \/ \E p \in 1..Len(passes) : EnhanceSucceeds(p, [enhanced |-> <<88>>, suggestions |-> NoSuggestions])
    \/ \E k \in 1..Len(currentEnhancedParagraphs) : KeepStart(k)
    \/ KeepDone

KeepSpec == KeepInit /\ [][KeepNext]_vars

\* ------------------------------------------------------------------
\* Specification of the replacement text of keepParagraph as a function of
\* the enhanced text: one pass over a one-paragraph document whose
\* enhancement resolves with any of ReplTexts, then the keep command
\* ------------------------------------------------------------------
ReplInit ==
    /\ doc = <<LineA>>
    /\ isMdxFile \in BOOLEAN
    /\ activeUri = UriA
    /\ extracted = <<>>
    /\ segPc = "unused"
    /\ call = NoCall
    /\ returned = NotReturned
    /\ OrchInit

ReplNext ==
    \/ (passes = <<>> /\ OnActiveEditorChanged)
    \/ \E response \in ReplResponses : EnhanceSucceeds(1, response)
    \/ KeepStart(1)
    \/ KeepDone

ReplSpec == ReplInit /\ [][ReplNext]_vars

\* ------------------------------------------------------------------
\* Specification of the pass that follows keepParagraph: one pass over a
\* one-paragraph document whose enhancement resolves with any of KeptTexts,
\* the keep command, and the debounced pass its edit of the document triggers,
\* before or after the kept-set entry is recorded
\* ------------------------------------------------------------------
\* the enhanced texts of this specification: the strings of "X", newline and
\* space up to MaxTextLen characters
KeptTexts == UNION {[1..n -> {88, 10, 32}] : n \in 0..MaxTextLen}

KeptResponses == {[enhanced |-> t, suggestions |-> NoSuggestions] : t \in KeptTexts}

RekeepNext ==
    \/ (passes = <<>> /\ OnActiveEditorChanged)
    \/ \E response \in KeptResponses : EnhanceSucceeds(1, response)
    \/ KeepStart(1)
    \/ KeepDone
    \/ DebounceFire

RekeepSpec == ReplInit /\ [][RekeepNext]_vars

\* ------------------------------------------------------------------
\* Specification of the refresh command and of configuration changes after
\* paragraphs were enhanced and kept, over the document of KeepInit
\* ------------------------------------------------------------------
CacheNext ==
    \/ OnActiveEditorChanged
    \/ RefreshEnhancement
    \/ OnConfigurationChanged
    \/ \E p \in 1..Len(passes) : EnhanceSucceeds(p, [enhanced |-> <<88>>, suggestions |-> NoSuggestions])
    \/ \E k \in 1..Len(currentEnhancedParagraphs) : KeepStart(k)
    \/ KeepDone

CacheSpec == KeepInit /\ [][CacheNext]_vars

\* ------------------------------------------------------------------
\* Specification of the enhancement loop over documents of two or three
\* paragraphs: passes started by editor switches and saves, requests that
\* succeed or fail, and a new pass at any moment of the previous one
\* ------------------------------------------------------------------
LineMdx == <<123, 120, 125>>                 \* "{x}"

\* two texts; an ignored text and a text; a text and a kept text; a text and
\* a code block; a text, an MDX expression and a text
LoopDocs == { <<LineA, LineBlank, LineB>>,
              <<LineJsxIgnore, LineB, LineBlank, LineA>>,
              <<LineA, LineBlank, LineHtmlNoEnhance, LineB>>,
              <<LineA, LineBlank, Fence, LineB, Fence>>,
              <<LineA, LineBlank, LineMdx, LineBlank, LineB>> }

LoopInit ==
    /\ doc \in LoopDocs
    /\ isMdxFile = FALSE
    /\ activeUri = UriA
    /\ extracted = <<>>
    /\ segPc = "unused"
    /\ call = NoCall
    /\ returned = NotReturned
    /\ OrchInit

LoopNext ==
    \/ OnActiveEditorChanged
    \/ OnDidSave
    \/ \E p \in 1..Len(passes) : EnhanceSucceeds(p, [enhanced |-> <<88>>, suggestions |-> NoSuggestions])
    \/ \E p \in 1..Len(passes) : EnhanceFails(p)

LoopSpec == LoopInit /\ [][LoopNext]_vars

\* ------------------------------------------------------------------
\* Specification of the enhancement loop when every request returns: the
\* promise of aiService.enhance that a pass awaits is settled sooner or
\* later, with a result or with an error: as long as a pass awaits a
\* request, some awaited request returns
\* ------------------------------------------------------------------
\* the request pass p awaits returns
RequestReturns(p) ==
    \/ EnhanceSucceeds(p, [enhanced |-> <<88>>, suggestions |-> NoSuggestions])
    \/ EnhanceFails(p)

LoopLiveSpec ==
    /\ LoopInit
    /\ [][LoopNext]_vars
    /\ WF_vars(\E p \in 1..Len(passes) : RequestReturns(p))

\* ------------------------------------------------------------------
\* AIService.parseCombinedResponse (part_002 lines 399-444) and the
\* JSON.parse it calls.  JSON texts are read character by character; the
\* grammar covers objects, arrays, strings without escapes, unsigned
\* integers and null, true, false, which is what the texts considered hold
\* ------------------------------------------------------------------
\* the white space of the JSON grammar: tab, line feed, carriage return, space
JsonWs == {9, 10, 13, 32}

\* index of the first character at or after pos that is not JSON white space
\* (Len(text) + 1 if none)
SkipJsonWs(text, pos) ==
    IF \E k \in pos..Len(text) : text[k] \notin JsonWs
    THEN CHOOSE k \in pos..Len(text) :
            /\ text[k] \notin JsonWs
            /\ \A j \in pos..(k - 1) : text[j] \in JsonWs
    ELSE Len(text) + 1

\* a JSON value: t is its type, s the characters of a string or number, keys
\* and items the member names and values of an object, items the elements of
\* an array
JsonValue(t, s, keys, items) == [t |-> t, s |-> s, keys |-> keys, items |-> items]
JsonUndefined == JsonValue("undefined", <<>>, <<>>, <<>>)

\* the result of reading a value: the value and the position after it, or a
\* SyntaxError
JsonFail == [ok |-> FALSE, value |-> JsonUndefined, next |-> 0]
JsonOk(value, next) == [ok |-> TRUE, value |-> value, next |-> next]

\* the position of the quote that closes the string opened at pos, 0 if none
StringEnd(text, pos) ==
    IF \E q \in (pos + 1)..Len(text) : text[q] = 34
    THEN CHOOSE q \in (pos + 1)..Len(text) :
            text[q] = 34 /\ \A j \in (pos + 1)..(q - 1) : text[j] # 34
    ELSE 0

\* the string opened at pos and closed at q; control characters are not
\* allowed in a string, and a backslash starts an escape, which is not read
ReadStringTo(text, pos, q) ==
    IF q = 0 \/ \E k \in (pos + 1)..(q - 1) : text[k] < 32 \/ text[k] = 92
    THEN JsonFail
    ELSE JsonOk(JsonValue("string", SubSeq(text, pos + 1, q - 1), <<>>, <<>>), q + 1)

ReadString(text, pos) == ReadStringTo(text, pos, StringEnd(text, pos))

\* the position after the digits that start at pos
NumberEnd(text, pos) ==
    IF \E k \in pos..Len(text) : text[k] \notin Digits
    THEN CHOOSE k \in pos..Len(text) :
            text[k] \notin Digits /\ \A j \in pos..(k - 1) : text[j] \in Digits
    ELSE Len(text) + 1

\* an unsigned integer; a leading zero is followed by no digit
ReadNumberTo(text, pos, end) ==
    IF end > pos + 1 /\ text[pos] = 48
    THEN JsonFail
    ELSE JsonOk(JsonValue("number", SubSeq(text, pos, end - 1), <<>>, <<>>), end)

\* the literal word (null, true, false) at pos
ReadLiteral(text, pos, word, t) ==
    IF OccursAt(text, pos, word)
    THEN JsonOk(JsonValue(t, <<>>, <<>>, <<>>), pos + Len(word))
    ELSE JsonFail

RECURSIVE ReadValue(_, _)
RECURSIVE ReadMembers(_, _, _, _)
RECURSIVE ReadElements(_, _, _)

\* after the member value read as r: a comma and the next member, or the
\* closing brace
MembersAfterValue(text, r, at, keys, items) ==
    IF ~r.ok \/ at > Len(text) THEN JsonFail
    ELSE IF text[at] = 44 THEN ReadMembers(text, SkipJsonWs(text, at + 1), keys, Append(items, r.value))
    ELSE IF text[at] = 125
    THEN JsonOk(JsonValue("object", <<>>, keys, Append(items, r.value)), at + 1)
    ELSE JsonFail

MembersAfterValueOf(text, r, keys, items) ==
    MembersAfterValue(text, r, IF r.ok THEN SkipJsonWs(text, r.next) ELSE 0, keys, items)

\* after the member name read as k: a colon and the value
MembersAfterKey(text, k, at, keys, items) ==
    IF ~k.ok \/ at > Len(text) \/ text[at] # 58 THEN JsonFail
    ELSE MembersAfterValueOf(text, ReadValue(text, at + 1), Append(keys, k.value.s), items)

MembersAfterKeyOf(text, k, keys, items) ==
    MembersAfterKey(text, k, IF k.ok THEN SkipJsonWs(text, k.next) ELSE 0, keys, items)

\* the members of an object from pos, the first character of a member name
ReadMembers(text, pos, keys, items) ==
    IF pos > Len(text) \/ text[pos] # 34 THEN JsonFail
    ELSE MembersAfterKeyOf(text, ReadString(text, pos), keys, items)

\* after the element read as r: a comma and the next element, or the closing
\* bracket
ElementsAfterValue(text, r, at, items) ==
    IF ~r.ok \/ at > Len(text) THEN JsonFail
    ELSE IF text[at] = 44 THEN ReadElements(text, at + 1, Append(items, r.value))
    ELSE IF text[at] = 93
    THEN JsonOk(JsonValue("array", <<>>, <<>>, Append(items, r.value)), at + 1)
    ELSE JsonFail

ElementsAfterValueOf(text, r, items) ==
    ElementsAfterValue(text, r, IF r.ok THEN SkipJsonWs(text, r.next) ELSE 0, items)

\* the elements of an array from pos
ReadElements(text, pos, items) ==
    ElementsAfterValueOf(text, ReadValue(text, pos), items)

\* the object opened before pos: empty, or its members
ReadObjectAt(text, pos) ==
    IF pos <= Len(text) /\ text[pos] = 125
    THEN JsonOk(JsonValue("object", <<>>, <<>>, <<>>), pos + 1)
    ELSE ReadMembers(text, pos, <<>>, <<>>)

\* the array opened before pos: empty, or its elements
ReadArrayAt(text, pos) ==
    IF pos <= Len(text) /\ text[pos] = 93
    THEN JsonOk(JsonValue("array", <<>>, <<>>, <<>>), pos + 1)
    ELSE ReadElements(text, pos, <<>>)

\* the value that starts at pos, which is not white space
ReadValueAt(text, pos) ==
    IF pos > Len(text) THEN JsonFail
    ELSE IF text[pos] = 34 THEN ReadString(text, pos)
    ELSE IF text[pos] = 123 THEN ReadObjectAt(text, SkipJsonWs(text, pos + 1))
    ELSE IF text[pos] = 91 THEN ReadArrayAt(text, SkipJsonWs(text, pos + 1))
    ELSE IF text[pos] \in Digits THEN ReadNumberTo(text, pos, NumberEnd(text, pos))
    ELSE IF text[pos] = 110 THEN ReadLiteral(text, pos, <<110, 117, 108, 108>>, "null")
    ELSE IF text[pos] = 116 THEN ReadLiteral(text, pos, <<116, 114, 117, 101>>, "boolean")
    ELSE IF text[pos] = 102 THEN ReadLiteral(text, pos, <<102, 97, 108, 115, 101>>, "boolean")
    ELSE JsonFail

ReadValue(text, pos) == ReadValueAt(text, SkipJsonWs(text, pos))

\* JSON.parse(text): the value, when nothing but white space follows it
JsonParsed(text, r) ==
    IF r.ok /\ SkipJsonWs(text, r.next) > Len(text) THEN r ELSE JsonFail

JsonParse(text) == JsonParsed(text, ReadValue(text, 1))

\* parsed[key] of an object: the value of the last member of that name
JsonGet(value, key) ==
    IF value.t = "object" /\ \E k \in 1..Len(value.keys) : value.keys[k] = key
    THEN value.items[CHOOSE k \in 1..Len(value.keys) :
                        /\ value.keys[k] = key
                        /\ \A j \in (k + 1)..Len(value.keys) : value.keys[j] # key]
    ELSE JsonUndefined

KeyEnhanced == <<101, 110, 104, 97, 110, 99, 101, 100>>                 \* "enhanced"
KeySuggestions == <<115, 117, 103, 103, 101, 115, 116, 105, 111, 110, 115>>  \* "suggestions"
KeyCategory == <<99, 97, 116, 101, 103, 111, 114, 121>>                 \* "category"
KeyTitle == <<116, 105, 116, 108, 101>>                                 \* "title"
KeyDescription == <<100, 101, 115, 99, 114, 105, 112, 116, 105, 111, 110>>  \* "description"
KeyExamples == <<101, 120, 97, 109, 112, 108, 101, 115>>                \* "examples"

\* the categories of line 420 and their spelling
CategoryNames == { <<"improvement", <<105, 109, 112, 114, 111, 118, 101, 109, 101, 110, 116>> >>,
                   <<"gap", <<103, 97, 112>> >>,
                   <<"idea", <<105, 100, 101, 97>> >> }

\* the filter of lines 413-422
IsSuggestion(v) ==
    /\ v.t = "object"
    /\ JsonGet(v, KeyCategory).t = "string"
    /\ JsonGet(v, KeyTitle).t = "string"
    /\ JsonGet(v, KeyDescription).t = "string"
    /\ \E c \in CategoryNames : c[2] = JsonGet(v, KeyCategory).s

\* the strings among the elements of an array
StringsOf(items) ==
    LET strings == SelectSeq(items, LAMBDA e : e.t = "string")
    IN  [k \in 1..Len(strings) |-> strings[k].s]

\* the map of lines 423-430; examples left undefined are the empty sequence
ToSuggestion(v) ==
    [ category |-> (CHOOSE c \in CategoryNames : c[2] = JsonGet(v, KeyCategory).s)[1],
      title |-> JsonGet(v, KeyTitle).s,
      description |-> JsonGet(v, KeyDescription).s,
      examples |-> IF JsonGet(v, KeyExamples).t = "array"
                   THEN StringsOf(JsonGet(v, KeyExamples).items) ELSE <<>> ]

\* lines 412-435 for parsed.suggestions
ParsedSuggestions(v) ==
    IF v.t # "array" THEN <<>>
    ELSE LET valid == SelectSeq(v.items, IsSuggestion)
         IN  [k \in 1..Len(valid) |-> ToSuggestion(valid[k])]

\* the position of the first "{" of the text and of its last "}", 0 if none
FirstBrace(text) ==
    IF \E k \in 1..Len(text) : text[k] = 123
    THEN CHOOSE k \in 1..Len(text) : text[k] = 123 /\ \A j \in 1..(k - 1) : text[j] # 123
    ELSE 0
LastBrace(text) ==
    IF \E k \in 1..Len(text) : text[k] = 125
    THEN CHOOSE k \in 1..Len(text) : text[k] = 125 /\ \A j \in (k + 1)..Len(text) : text[j] # 125
    ELSE 0

\* lines 408-437, parsed being the result of JSON.parse(jsonMatch[0]); a
\* SyntaxError is caught at line 440
FromParsed(responseText, parsed, suggestions) ==
    IF ~parsed.ok
    THEN [enhanced |-> Trim(responseText), suggestions |-> NoSuggestions]
    ELSE [ enhanced |-> IF JsonGet(parsed.value, KeyEnhanced).t = "string"
                        THEN JsonGet(parsed.value, KeyEnhanced).s
                        ELSE Trim(responseText),
           suggestions |-> IF Len(suggestions) > 0 THEN Suggestions(suggestions)
                           ELSE NoSuggestions ]

FromMatch(responseText, parsed) ==
    FromParsed(responseText, parsed,
               IF parsed.ok THEN ParsedSuggestions(JsonGet(parsed.value, KeySuggestions))
               ELSE <<>>)

\* parseCombinedResponse(responseText); jsonMatch is the match of
\* /\{[\s\S]*\}/, from the first "{" to the last "}" after it
parseCombinedResponse(responseText) ==
    IF FirstBrace(responseText) = 0 \/ LastBrace(responseText) < FirstBrace(responseText)
    THEN [enhanced |-> Trim(responseText), suggestions |-> NoSuggestions]
    ELSE FromMatch(responseText,
                   JsonParse(SubSeq(responseText, FirstBrace(responseText),
                                    LastBrace(responseText))))

\* the response texts of the model considered
\* X
TextPlain == <<88>>
\*  X\n
TextPadded == <<32, 88, 10>>
\* {"enhanced":"X"}
TextValid == <<123, 34, 101, 110, 104, 97, 110, 99, 101, 100, 34, 58, 34, 88, 34, 125>>
\* {"enhanced":"X"
TextUnclosed == <<123, 34, 101, 110, 104, 97, 110, 99, 101, 100, 34, 58, 34, 88, 34>>
\* {enhanced}
TextUnparsable == <<123, 101, 110, 104, 97, 110, 99, 101, 100, 125>>
\* {"enhanced":1}
TextEnhancedNotString == <<123, 34, 101, 110, 104, 97, 110, 99, 101, 100, 34, 58, 49, 125>>
\* {"suggestions":[{"category":"idea","title":"T","description":"D","examples":["E"]}]}
TextOnlySuggestions == <<123, 34, 115, 117, 103, 103, 101, 115, 116, 105, 111, 110, 115, 34, 58, 91, 123, 34, 99, 97, 116, 101, 103, 111, 114, 121, 34, 58, 34, 105, 100, 101, 97, 34, 44, 34, 116, 105, 116, 108, 101, 34, 58, 34, 84, 34, 44, 34, 100, 101, 115, 99, 114, 105, 112, 116, 105, 111, 110, 34, 58, 34, 68, 34, 44, 34, 101, 120, 97, 109, 112, 108, 101, 115, 34, 58, 91, 34, 69, 34, 93, 125, 93, 125>>
\* {"enhanced":"Y","suggestions":[{"category":"idea","title":"T","description":"D","examples":["E"]}]}
TextValidWithSuggestions == <<123, 34, 101, 110, 104, 97, 110, 99, 101, 100, 34, 58, 34, 89, 34, 44, 34, 115, 117, 103, 103, 101, 115, 116, 105, 111, 110, 115, 34, 58, 91, 123, 34, 99, 97, 116, 101, 103, 111, 114, 121, 34, 58, 34, 105, 100, 101, 97, 34, 44, 34, 116, 105, 116, 108, 101, 34, 58, 34, 84, 34, 44, 34, 100, 101, 115, 99, 114, 105, 112, 116, 105, 111, 110, 34, 58, 34, 68, 34, 44, 34, 101, 120, 97, 109, 112, 108, 101, 115, 34, 58, 91, 34, 69, 34, 93, 125, 93, 125>>
\* ok {"enhanced":"X"} .
TextAroundJson == <<111, 107, 32, 123, 34, 101, 110, 104, 97, 110, 99, 101, 100, 34, 58, 34, 88, 34, 125, 32, 46>>
\* {"enhanced":"X","suggestions":[{"category":"note","title":"T","description":"D"},1]}
TextFilteredSuggestions == <<123, 34, 101, 110, 104, 97, 110, 99, 101, 100, 34, 58, 34, 88, 34, 44, 34, 115, 117, 103, 103, 101, 115, 116, 105, 111, 110, 115, 34, 58, 91, 123, 34, 99, 97, 116, 101, 103, 111, 114, 121, 34, 58, 34, 110, 111, 116, 101, 34, 44, 34, 116, 105, 116, 108, 101, 34, 58, 34, 84, 34, 44, 34, 100, 101, 115, 99, 114, 105, 112, 116, 105, 111, 110, 34, 58, 34, 68, 34, 125, 44, 49, 93, 125>>

ResponseTexts == { TextPlain, TextPadded, TextValid, TextUnclosed, TextUnparsable,
                   TextEnhancedNotString, TextOnlySuggestions, TextValidWithSuggestions, TextAroundJson, TextFilteredSuggestions }

\* sendRequestToModel (part_002 lines 100-125) with includeSuggestions, which
\* is settings.showConsiderPanel (part_000 line 428), true by default: the
\* request of pass p resolves with the parsed responseText
EnhanceReturns(p, responseText) ==
    EnhanceSucceeds(p, parseCombinedResponse(responseText))

\* ------------------------------------------------------------------
\* Specification of the enhancement loop on the response texts of the model
\* ------------------------------------------------------------------
ParseNext ==
    \/ OnActiveEditorChanged
    \/ \E p \in 1..Len(passes) : \E responseText \in ResponseTexts :
            EnhanceReturns(p, responseText)
    \/ \E p \in 1..Len(passes) : EnhanceFails(p)

ParseSpec == LoopInit /\ [][ParseNext]_vars

\* ------------------------------------------------------------------
\* Specification of the initial list of processDocument as a function of the
\* previous paragraph sequence: for a new sequence, a force flag, a result
\* cache and a kept-set, the list is built once after the previous sequence
\* of the call and once after an empty previous sequence
\* ------------------------------------------------------------------
\* the result cache: empty, or holding a result for "A"
StatusCaches == { EmptyMap,
                  MapSet(EmptyMap, Fingerprint(LineA), CacheEntry(<<88>>, NoSuggestions, {})) }

\* the kept-set: empty, or holding "A", or holding "B"
StatusKept == { EmptyMap,
                MapSet(EmptyMap, Fingerprint(LineA), TRUE),
                MapSet(EmptyMap, Fingerprint(LineB), TRUE) }

StatusCalls ==
    [fn : {"initialList"}, oldParagraphs : CallLists, newParagraphs : CallLists,
     forceRefresh : BOOLEAN]

StatusInit ==
    /\ doc = <<LineA>>
    /\ isMdxFile = FALSE
    /\ activeUri = UriA
    /\ extracted = <<>>
    /\ segPc = "unused"
    /\ call \in StatusCalls
    /\ returned = NotReturned
    /\ enhancedCache \in StatusCaches
    /\ appliedStyleCache = EmptyMap
    /\ keptParagraphsCache \in StatusKept
    /\ currentParagraphs = <<>>
    /\ idCounter = 0
    /\ passes = <<>>
    /\ panelContent = Undefined
    /\ debounceTimer = FALSE
    /\ keepOp = KeepIdle("none")
    /\ requestLog = {}
    /\ keeps = 0
    /\ edits = 0
    /\ quiet = TRUE
    /\ commands = <<>>

\* lines 301-364 for the call: the list after the previous sequence of the
\* call, and the list after no previous sequence
CallInitialList ==
    /\ call.fn = "initialList"
    /\ ~returned.done
    /\ returned' =
          [done |-> TRUE,
           value |-> [ list |-> InitialList(call.newParagraphs,
                                            findChangedParagraphs(call.oldParagraphs,
                                                                  call.newParagraphs),
                                            call.forceRefresh, enhancedCache),
                       afterNone |-> InitialList(call.newParagraphs,
                                                 findChangedParagraphs(<<>>,
                                                                       call.newParagraphs),
                                                 call.forceRefresh, enhancedCache) ]]
    /\ UNCHANGED <<doc, isMdxFile, activeUri, extracted, segPc, call, orchVars>>

StatusNext ==
    \/ CallInitialList

StatusSpec == StatusInit /\ [][StatusNext]_vars

\* ------------------------------------------------------------------
\* The messages of the webview (enhancementPanel.ts lines 96-144) and the
\* commands of the extension (part_000 lines 69-104)
\* ------------------------------------------------------------------
\* the command ids activate() registers
RegisteredCommands ==
    { "marktwo.showPanel", "marktwo.hidePanel", "marktwo.refreshPanel",
      "marktwo.reenhanceParagraph", "marktwo.keepParagraph",
      "marktwo.applySuggestion", "marktwo.improveSelection" }

\* an optional property of a message is the empty set when it is undefined
\* and the set of its value otherwise
Absent == {}
Present(v) == {v}

\* JavaScript truthiness of an optional string
Truthy(property) == \E v \in property : Len(v) > 0

\* vscode.commands.executeCommand(command, ...args)
Execute(command, args) == [command |-> command, args |-> args]

\* handleMessage(message): the calls of executeCommand it makes
handleMessage(message) ==
    IF message.type = "refresh"
    THEN << Execute("markdown-ai-enhancer.refreshPanel", <<>>) >>
    ELSE IF message.type = "reenhance"
    THEN IF Truthy(message.paragraphId) /\ Truthy(message.mode)
         THEN << Execute("markdown-ai-enhancer.reenhanceParagraph",
                         <<message.paragraphId, message.mode>>) >>
         ELSE <<>>
    ELSE IF message.type = "keep"
    THEN IF Truthy(message.paragraphId)
         THEN << Execute("markdown-ai-enhancer.keepParagraph", <<message.paragraphId>>) >>
         ELSE <<>>
    ELSE IF message.type = "apply"
    THEN IF /\ message.paragraphId # Absent
            /\ message.suggestionIndex # Absent
            /\ message.exampleIndex # Absent
         THEN << Execute("markdown-ai-enhancer.applySuggestion",
                         <<message.paragraphId, message.suggestionIndex,
                           message.exampleIndex>>) >>
         ELSE <<>>
    ELSE IF message.type = "improveSelection"
    THEN IF /\ Truthy(message.paragraphId)
            /\ Truthy(message.selectedText)
            /\ Truthy(message.instruction)
         THEN << Execute("markdown-ai-enhancer.improveSelection",
                         <<message.paragraphId, message.selectedText,
                           message.instruction>>) >>
         ELSE <<>>
    ELSE <<>>

\* the messages considered: the five command types and one other type, each
\* property undefined, empty or set
Messages ==
    [ type : {"refresh", "reenhance", "keep", "apply", "improveSelection", "ready"},
      paragraphId : {Absent, Present(<<>>), Present(<<112>>)},
      mode : {Absent, Present(<<116>>)},
      suggestionIndex : {Absent, Present(0)},
      exampleIndex : {Absent, Present(0)},
      selectedText : {Absent, Present(<<115>>)},
      instruction : {Absent, Present(<<105>>)} ]

MessageInit ==
    /\ doc = <<LineA>>
    /\ isMdxFile = FALSE
    /\ activeUri = UriA
    /\ extracted = <<>>
    /\ segPc = "unused"
    /\ call \in [fn : {"handleMessage"}, message : Messages]
    /\ returned = NotReturned
    /\ OrchInit

\* the webview posts the message of the call and handleMessage runs
OnDidReceiveMessage ==
    /\ call.fn = "handleMessage"
    /\ ~returned.done
    /\ returned' = [done |-> TRUE, value |-> handleMessage(call.message)]
    /\ UNCHANGED <<doc, isMdxFile, activeUri, extracted, segPc, call, orchVars>>

MessageNext ==
    \/ OnDidReceiveMessage

MessageSpec == MessageInit /\ [][MessageNext]_vars

\* ------------------------------------------------------------------
\* Specification of keepParagraph on a document the user has edited since the
\* last pass: the document of KeepInit, edits that shorten or restore it, and
\* the keep command before or after the debounced pass
\* ------------------------------------------------------------------
StaleKeepNext ==
    \/ OnActiveEditorChanged
    \/ DebounceFire
    \/ \E p \in 1..Len(passes) : EnhanceSucceeds(p, [enhanced |-> <<88>>, suggestions |-> NoSuggestions])
    \/ \E d \in IdemDocs : EditDocument(d)
    \/ \E k \in 1..Len(currentEnhancedParagraphs) : KeepStart(k)
    \/ KeepDone

StaleKeepSpec == KeepInit /\ [][StaleKeepNext]_vars

\* ------------------------------------------------------------------
\* Specification of keepParagraph on a document whose lines the user has
\* rewritten since the last pass: the document "A", edits that put other text
\* on its lines, and the keep command before or after the debounced pass
\* ------------------------------------------------------------------
\* "A", "B", and "B", blank, "A"
RewrittenDocs == { <<LineA>>, <<LineB>>, <<LineB, LineBlank, LineA>> }

RewriteInit ==
    /\ doc = <<LineA>>
    /\ isMdxFile = FALSE
    /\ activeUri = UriA
    /\ extracted = <<>>
    /\ segPc = "unused"
    /\ call = NoCall
    /\ returned = NotReturned
    /\ OrchInit

RewriteNext ==
    \/ OnActiveEditorChanged
    \/ DebounceFire
    \/ \E p \in 1..Len(passes) : EnhanceSucceeds(p, [enhanced |-> <<88>>, suggestions |-> NoSuggestions])
    \/ \E d \in RewrittenDocs : EditDocument(d)
    \/ \E k \in 1..Len(currentEnhancedParagraphs) : KeepStart(k)
    \/ KeepDone

RewriteSpec == RewriteInit /\ [][RewriteNext]_vars

\* ------------------------------------------------------------------
\* Specification of passes over two documents: the user switches between the
\* editors of a.md and b.md, and each switch is followed, sooner or later, by
\* the handler of the active-editor event
\* ------------------------------------------------------------------
\* the text of each document
TextOf(u) == IF u = UriA THEN <<LineA, LineBlank, LineB>> ELSE <<LineB>>

\* the editor of document u becomes the active editor
SwitchEditor(u) ==
    /\ u # activeUri
    /\ activeUri' = u
    /\ doc' = TextOf(u)
    /\ quiet' = FALSE
    /\ UNCHANGED <<isMdxFile, segVars, enhancedCache, appliedStyleCache,
                   keptParagraphsCache, currentParagraphs, idCounter, passes,
                   panelContent, debounceTimer, keepOp, requestLog, keeps, edits,
                   commands>>

TwoDocInit ==
    /\ doc = TextOf(UriA)
    /\ isMdxFile = FALSE
    /\ activeUri = UriA
    /\ extracted = <<>>
    /\ segPc = "unused"
    /\ call = NoCall
    /\ returned = NotReturned
    /\ OrchInit

TwoDocNext ==
    \/ \E u \in {UriA, UriB} : SwitchEditor(u)
    \/ OnActiveEditorChanged
    \/ \E p \in 1..Len(passes) : EnhanceSucceeds(p, [enhanced |-> <<88>>, suggestions |-> NoSuggestions])
    \/ \E p \in 1..Len(passes) : EnhanceFails(p)

TwoDocSpec == TwoDocInit /\ [][TwoDocNext]_vars

\* ------------------------------------------------------------------
\* Specification of the commands of the panel running between the steps of
\* the passes, over a document of one paragraph, with or without a style
\* directive
\* ------------------------------------------------------------------
\* a suggestion with two examples
SuggestionU == [ category |-> "idea", title |-> <<85>>, description |-> <<68>>,
                 examples |-> << <<70>>, <<71>> >> ]

\* the results aiService.enhance can resolve with here: "X" without
\* suggestions, "Y" with two suggestions
CommandResponses == { [enhanced |-> <<88>>, suggestions |-> NoSuggestions],
                      [enhanced |-> <<89>>,
                       suggestions |-> Suggestions(<<SuggestionT, SuggestionU>>)] }

\* the results the request of reenhanceParagraph can resolve with: it is made
\* without includeSuggestions (part_000 lines 751-762), so the result is the
\* trimmed response text alone (part_002 line 128): "X" or "Z"
ReenhanceResponses == { [enhanced |-> <<88>>, suggestions |-> NoSuggestions],
                        [enhanced |-> <<90>>, suggestions |-> NoSuggestions] }

\* the mode reenhanceParagraph is called with
CommandModes == {"technical"}

\* "A", and "A" under the directive <!-- ai-style: casual -->
CommandDocs == { <<LineA>>, <<LineHtmlStyle, LineA>> }

\* the text aiService.mergeExample and aiService.improveSelection resolve with
MergedText == <<77>>                         \* "M"
ImprovedText == <<73>>                       \* "I"

CommandInit ==
    /\ doc \in CommandDocs
    /\ isMdxFile = FALSE
    /\ activeUri = UriA
    /\ extracted = <<>>
    /\ segPc = "unused"
    /\ call = NoCall
    /\ returned = NotReturned
    /\ OrchInit

CommandNext ==
    \/ OnActiveEditorChanged
    \/ \E p \in 1..Len(passes) : \E response \in CommandResponses : EnhanceSucceeds(p, response)
    \/ \E p \in 1..Len(passes) : EnhanceFails(p)
    \/ \E k \in 1..Len(currentEnhancedParagraphs) : \E mode \in CommandModes : ReenhanceStart(k, mode)
    \/ \E c \in 1..Len(commands) : \E response \in ReenhanceResponses : ReenhanceSucceeds(c, response)
    \/ \E c \in 1..Len(commands) : ReenhanceFails(c)
    \/ \E k \in 1..Len(currentEnhancedParagraphs) : \E si \in 1..2 : \E ei \in 1..2 : ApplyStart(k, si, ei)
    \/ \E c \in 1..Len(commands) : ApplySucceeds(c, MergedText)
    \/ \E c \in 1..Len(commands) : ApplyFails(c)
    \/ \E k \in 1..Len(currentEnhancedParagraphs) : ImproveStart(k)
    \/ \E c \in 1..Len(commands) : ImproveSucceeds(c, ImprovedText)
    \/ \E c \in 1..Len(commands) : ImproveFails(c)

CommandSpec == CommandInit /\ [][CommandNext]_vars

\* ------------------------------------------------------------------
\* Specification of reenhanceParagraph running between the steps of the
\* passes
\* ------------------------------------------------------------------
ReenhanceNext ==
    \/ OnActiveEditorChanged
    \/ \E p \in 1..Len(passes) : \E response \in CommandResponses : EnhanceSucceeds(p, response)
    \/ \E p \in 1..Len(passes) : EnhanceFails(p)
    \/ \E k \in 1..Len(currentEnhancedParagraphs) : \E mode \in CommandModes : ReenhanceStart(k, mode)
    \/ \E c \in 1..Len(commands) : \E response \in ReenhanceResponses : ReenhanceSucceeds(c, response)
    \/ \E c \in 1..Len(commands) : ReenhanceFails(c)

ReenhanceSpec == CommandInit /\ [][ReenhanceNext]_vars

\* ------------------------------------------------------------------
\* Specification of improveSelection running between the steps of the passes
\* over the document "A"
\* ------------------------------------------------------------------
ImproveNext ==
    \/ OnActiveEditorChanged
    \/ \E p \in 1..Len(passes) : \E response \in Responses : EnhanceSucceeds(p, response)
    \/ \E p \in 1..Len(passes) : EnhanceFails(p)
    \/ \E k \in 1..Len(currentEnhancedParagraphs) : ImproveStart(k)
    \/ \E c \in 1..Len(commands) : ImproveSucceeds(c, ImprovedText)
    \/ \E c \in 1..Len(commands) : ImproveFails(c)

ImproveSpec == Init /\ [][ImproveNext]_vars

\* ------------------------------------------------------------------
\* The four commands as they are called, with a paragraph id (part_000 lines
\* 505-510, 575-580, 651-656 and 718-723)
\* ------------------------------------------------------------------
\* FindIndex with the bug of taking the first paragraph when no paragraph has
\* the id
FindIndex_FirstWhenMissing(list, id) ==
    IF \E k \in 1..Len(list) : list[k].original.id = id
    THEN CHOOSE k \in 1..Len(list) :
            /\ list[k].original.id = id
            /\ \A j \in 1..(k - 1) : list[j].original.id # id
    ELSE IF Len(list) > 0 THEN 1 ELSE 0

\* currentEnhancedParagraphs.findIndex(p => p.original.id === paragraphId),
\* 1-based; 0 when no paragraph has the id
FindIndex(list, id) ==
    IF \E k \in 1..Len(list) : list[k].original.id = id
    THEN CHOOSE k \in 1..Len(list) :
            /\ list[k].original.id = id
            /\ \A j \in 1..(k - 1) : list[j].original.id # id
    ELSE 0

\* the record of a call that returned because no paragraph has the id
NotFoundCall(kind, id) ==
    [ kind |-> kind, pc |-> "done", pass |-> 0, index |-> 0, mode |-> NoStyle,
      suggestionIndex |-> 0, exampleIndex |-> 0, title |-> <<>>, examples |-> <<>>,
      exampleText |-> <<>>, outcome |-> "notFound", id |-> id ]

\* `if (index === -1) { log(...); return; }`
ReturnNotFound(kind, id) ==
    /\ Len(commands) < MaxCommands
    /\ commands' = Append(commands, NotFoundCall(kind, id))
    /\ UNCHANGED <<doc, isMdxFile, activeUri, segVars, enhancedCache, appliedStyleCache,
                   keptParagraphsCache, currentParagraphs, idCounter, passes,
                   panelContent, debounceTimer, keepOp, requestLog, quiet, keeps, edits>>

\* reenhanceParagraph(paragraphId, mode)
reenhanceParagraph(id, mode) ==
    IF FindIndex(currentEnhancedParagraphs, id) = 0
    THEN ReturnNotFound("reenhance", id)
    ELSE ReenhanceStart(FindIndex(currentEnhancedParagraphs, id), mode)

\* applySuggestion(paragraphId, suggestionIndex, exampleIndex)
applySuggestion(id, suggestionIndex, exampleIndex) ==
    IF FindIndex(currentEnhancedParagraphs, id) = 0
    THEN ReturnNotFound("apply", id)
    ELSE ApplyStart(FindIndex(currentEnhancedParagraphs, id), suggestionIndex, exampleIndex)

\* improveSelection(paragraphId, selectedText, instruction)
improveSelection(id) ==
    IF FindIndex(currentEnhancedParagraphs, id) = 0
    THEN ReturnNotFound("improve", id)
    ELSE ImproveStart(FindIndex(currentEnhancedParagraphs, id))

\* keepParagraph(paragraphId)
keepParagraph(id) ==
    IF FindIndex(currentEnhancedParagraphs, id) = 0
    THEN ReturnNotFound("keep", id)
    ELSE KeepStart(FindIndex(currentEnhancedParagraphs, id))

\* ------------------------------------------------------------------
\* Specification of the commands called with the ids handed out so far, those
\* of superseded passes included, over the document "A"
\* ------------------------------------------------------------------
ByIdDocs == { <<LineA>> }

\* the ids generateId has returned, and the one it returns next
KnownIds == 0..idCounter

ByIdInit ==
    /\ doc \in ByIdDocs
    /\ isMdxFile = FALSE
    /\ activeUri = UriA
    /\ extracted = <<>>
    /\ segPc = "unused"
    /\ call = NoCall
    /\ returned = NotReturned
    /\ OrchInit

ByIdNext ==
    \/ OnActiveEditorChanged
    \/ \E p \in 1..Len(passes) : EnhanceSucceeds(p, [enhanced |-> <<89>>, suggestions |-> Suggestions(<<SuggestionT>>)])
    \/ \E id \in KnownIds : \E mode \in CommandModes : reenhanceParagraph(id, mode)
    \/ \E c \in 1..Len(commands) : ReenhanceSucceeds(c, [enhanced |-> <<90>>, suggestions |-> NoSuggestions])
    \/ \E c \in 1..Len(commands) : ReenhanceFails(c)
    \/ \E id \in KnownIds : applySuggestion(id, 1, 1)
    \/ \E c \in 1..Len(commands) : ApplySucceeds(c, MergedText)
    \/ \E c \in 1..Len(commands) : ApplyFails(c)
    \/ \E id \in KnownIds : improveSelection(id)
    \/ \E c \in 1..Len(commands) : ImproveSucceeds(c, ImprovedText)
    \/ \E c \in 1..Len(commands) : ImproveFails(c)
    \/ \E id \in KnownIds : keepParagraph(id)
    \/ KeepDone

ByIdSpec == ByIdInit /\ [][ByIdNext]_vars

\* ------------------------------------------------------------------
\* Specification of reenhanceParagraph called on the paragraphs of the
\* document "A", blank, MDX line
\* ------------------------------------------------------------------
MdxInit ==
    /\ doc = <<LineA, LineBlank, LineMdx>>
    /\ isMdxFile = FALSE
    /\ activeUri = UriA
    /\ extracted = <<>>
    /\ segPc = "unused"
    /\ call = NoCall
    /\ returned = NotReturned
    /\ OrchInit

MdxNext ==
    \/ OnActiveEditorChanged
    \/ \E p \in 1..Len(passes) : EnhanceSucceeds(p, [enhanced |-> <<88>>, suggestions |-> NoSuggestions])
    \/ \E id \in KnownIds : \E mode \in CommandModes : reenhanceParagraph(id, mode)
    \/ \E c \in 1..Len(commands) : ReenhanceSucceeds(c, [enhanced |-> <<90>>, suggestions |-> NoSuggestions])
    \/ \E c \in 1..Len(commands) : ReenhanceFails(c)

MdxSpec == MdxInit /\ [][MdxNext]_vars

\* ------------------------------------------------------------------
\* Specification of reenhanceParagraph and improveSelection running on the
\* paragraphs of the document "A", blank, "B" while the loop of a pass runs
\* ------------------------------------------------------------------
InterleaveInit ==
    /\ doc = <<LineA, LineBlank, LineB>>
    /\ isMdxFile = FALSE
    /\ activeUri = UriA
    /\ extracted = <<>>
    /\ segPc = "unused"
    /\ call = NoCall
    /\ returned = NotReturned
    /\ OrchInit

InterleaveNext ==
    \/ OnActiveEditorChanged
    \/ \E p \in 1..Len(passes) : EnhanceSucceeds(p, [enhanced |-> <<88>>, suggestions |-> NoSuggestions])
    \/ \E p \in 1..Len(passes) : EnhanceFails(p)
    \/ \E k \in 1..Len(currentEnhancedParagraphs) : \E mode \in CommandModes : ReenhanceStart(k, mode)
    \/ \E c \in 1..Len(commands) : ReenhanceSucceeds(c, [enhanced |-> <<90>>, suggestions |-> NoSuggestions])
    \/ \E c \in 1..Len(commands) : ReenhanceFails(c)
    \/ \E k \in 1..Len(currentEnhancedParagraphs) : ImproveStart(k)
    \/ \E c \in 1..Len(commands) : ImproveSucceeds(c, ImprovedText)
    \/ \E c \in 1..Len(commands) : ImproveFails(c)

InterleaveSpec == InterleaveInit /\ [][InterleaveNext]_vars

\* ------------------------------------------------------------------
\* Properties of the segmenter (checked under SegSpec)
\* ------------------------------------------------------------------
\* the 0-based line i of the document
LineAt(i) == doc[i + 1]

\* the indices of the paragraphs whose line range contains line i
Covering(i) ==
    {k \in 1..Len(extracted) : extracted[k].startLine <= i /\ i <= extracted[k].endLine}

IsDirectiveLine(l) ==
    \/ IsStandaloneIgnore(Trim(l))
    \/ IsStandaloneNoEnhance(Trim(l))
    \/ StandaloneStyle(Trim(l)) # NoStyle

IsFenceLine(l) == StartsWith(Trim(l), Fence) \/ StartsWith(Trim(l), Tilde)

\* The regions of a document as the specification describes them: a front
\* matter block opens on line 0 with --- and runs to the next --- line, a
\* fenced region opens on a line beginning with a fence token and runs to the
\* next line beginning with the same token (to the end of the text when it is
\* never closed).  Each line gets its kind ("fm", "fence" or "none"), the line
\* its region opened on and whether it closes the region.
RECURSIVE RegionScan(_, _, _, _, _)
RegionScan(lines, i, mode, from, acc) ==
    IF i >= Len(lines) THEN acc
    ELSE LET t == Trim(lines[i + 1])
         IN  IF i = 0 /\ t = Dashes
             THEN RegionScan(lines, i + 1, "fm", i,
                     Append(acc, [kind |-> "fm", from |-> i, closes |-> FALSE]))
             ELSE IF mode = "fm"
             THEN RegionScan(lines, i + 1, IF t = Dashes THEN "none" ELSE "fm", from,
                     Append(acc, [kind |-> "fm", from |-> from, closes |-> (t = Dashes)]))
             ELSE IF mode = "none" /\ IsFenceLine(lines[i + 1])
             THEN RegionScan(lines, i + 1,
                     IF StartsWith(t, Fence) THEN "backticks" ELSE "tildes", i,
                     Append(acc, [kind |-> "fence", from |-> i, closes |-> FALSE]))
             ELSE IF mode \in {"backticks", "tildes"}
             THEN LET closes == StartsWith(t, IF mode = "backticks" THEN Fence ELSE Tilde)
                  IN  RegionScan(lines, i + 1, IF closes THEN "none" ELSE mode, from,
                         Append(acc, [kind |-> "fence", from |-> from, closes |-> closes]))
             ELSE RegionScan(lines, i + 1, "none", from,
                     Append(acc, [kind |-> "none", from |-> i, closes |-> FALSE]))

Regions == RegionScan(doc, 0, "none", 0, <<>>)

\* the closed fenced regions <<first line, last line>> of the document
ClosedFences ==
    {<<Regions[k].from, k - 1>> : k \in {j \in 1..Len(doc) :
                                        Regions[j].kind = "fence" /\ Regions[j].closes}}

\* C4: the paragraphs have startLine <= endLine and strictly ascending,
\* pairwise disjoint line ranges.
C4_RangesAscendingDisjoint ==
    segPc = "done" =>
        /\ \A k \in 1..Len(extracted) : extracted[k].startLine <= extracted[k].endLine
        /\ \A k \in 1..(Len(extracted) - 1) :
              extracted[k].endLine < extracted[k + 1].startLine

C6_ContentIsJoinedLines ==
    segPc = "done" =>
        \A k \in 1..Len(extracted) :
            /\ extracted[k].startLine >= 0
            /\ extracted[k].endLine < Len(doc)
            /\ extracted[k].content =
                  JoinLines(SubSeq(doc, extracted[k].startLine + 1, extracted[k].endLine + 1))

\* C7: every closed fenced region outside a front matter block is exactly one
\* paragraph of type code with ignore set, whose range and content are the
\* whole region; no other paragraph touches the region.
C7_FencedRegionIsOneCodeParagraph ==
    segPc = "done" =>
        \A r \in ClosedFences :
            /\ \E k \in 1..Len(extracted) :
                  /\ extracted[k].startLine = r[1]
                  /\ extracted[k].endLine = r[2]
                  /\ extracted[k].type = "code"
                  /\ extracted[k].ignore
                  /\ extracted[k].content = JoinLines(SubSeq(doc, r[1] + 1, r[2] + 1))
            /\ \A i \in r[1]..r[2] : Cardinality(Covering(i)) = 1

\* the value a directive line sets, and whether paragraph p carries it
DirectiveHolds(l, p) ==
    IF IsStandaloneIgnore(Trim(l)) THEN p.ignore
    ELSE IF IsStandaloneNoEnhance(Trim(l)) THEN p.noEnhance
    ELSE p.styleOverride = StandaloneStyle(Trim(l))

SameKind(l, m) ==
    \/ IsStandaloneIgnore(Trim(l)) /\ IsStandaloneIgnore(Trim(m))
    \/ IsStandaloneNoEnhance(Trim(l)) /\ IsStandaloneNoEnhance(Trim(m))
    \/ StandaloneStyle(Trim(l)) # NoStyle /\ StandaloneStyle(Trim(m)) # NoStyle

\* C8: a standalone directive line outside fenced and front matter regions
\* lies in no paragraph (it ends the paragraph before it and produces none),
\* the first paragraph that starts after it carries its flag, and the
\* paragraph it ended does not (when no earlier directive of that kind exists).
C8_DirectiveIsBoundaryForNextParagraph ==
    segPc = "done" =>
        \A d \in 0..(Len(doc) - 1) :
            (IsDirectiveLine(LineAt(d)) /\ Regions[d + 1].kind = "none") =>
                /\ Covering(d) = {}
                /\ \A k \in 1..Len(extracted) :
                      (/\ extracted[k].startLine > d
                       /\ \A j \in 1..(k - 1) : extracted[j].startLine < d
                       /\ \A e \in (d + 1)..(extracted[k].startLine - 1) :
                             ~SameKind(LineAt(d), LineAt(e)))
                          => DirectiveHolds(LineAt(d), extracted[k])
                /\ \A k \in 1..Len(extracted) :
                      (/\ extracted[k].endLine < d
                       /\ extracted[k].type \notin {"code", "frontmatter"}
                       /\ \A e \in 0..(d - 1) : ~SameKind(LineAt(d), LineAt(e)))
                          => ~DirectiveHolds(LineAt(d), extracted[k])

\* a document of plain text lines and blank lines only
IsPlainDoc ==
    \A i \in 0..(Len(doc) - 1) :
        LineAt(i) = LineBlank
        \/ (~IsDirectiveLine(LineAt(i)) /\ ~IsFenceLine(LineAt(i)) /\ Regions[i + 1].kind = "none")

\* the lines that start a block: non-blank lines that follow a blank line or
\* open the document
BlockStarts ==
    {i \in 0..(Len(doc) - 1) :
        Trim(LineAt(i)) # <<>> /\ (i = 0 \/ Trim(LineAt(i - 1)) = <<>>)}

\* C9: a blank line outside fenced and front matter regions lies in no
\* paragraph, no paragraph has empty or whitespace-only content, and a plain
\* document of N blocks separated by blank lines yields N paragraphs, one
\* starting at each block.
C9_BlankLinesSeparate ==
    segPc = "done" =>
        /\ \A i \in 0..(Len(doc) - 1) :
              (Trim(LineAt(i)) = <<>> /\ Regions[i + 1].kind = "none") => Covering(i) = {}
        /\ \A k \in 1..Len(extracted) : Trim(extracted[k].content) # <<>>
        /\ IsPlainDoc =>
              /\ Len(extracted) = Cardinality(BlockStarts)
              /\ {extracted[k].startLine : k \in 1..Len(extracted)} = BlockStarts

\* witness of C9: a plain document with two blocks around a blank line
C9_Witness ==
    /\ segPc = "done"
    /\ IsPlainDoc
    /\ Cardinality(BlockStarts) = 2
    /\ Len(extracted) = 2
    /\ \E i \in 1..(Len(doc) - 2) : LineAt(i) = LineBlank

\* ------------------------------------------------------------------
\* Properties of processDocument
\* ------------------------------------------------------------------
\* the paragraphs of pass p whose fingerprint was in the kept-set when the
\* pass started
KeptAtStart(p) ==
    {k \in 1..Len(passes[p].list) :
        Fingerprint(passes[p].list[k].original.content) \in passes[p].keptAtStart}

\* C1 (checked under KeepSpec): once a fingerprint is in the kept-set, every
\* later pass, forced or not and whatever the result cache holds, gives each
\* paragraph with that fingerprint status complete, kept = true and its
\* original content as enhanced text, and sends no request for it.
C1_KeptParagraphsAreNotReprocessed ==
    \A p \in 1..Len(passes) : \A k \in KeptAtStart(p) :
        LET para == passes[p].list[k]
        IN  /\ para.status = "complete"
            /\ para.kept
            /\ para.enhanced = para.original.content
            /\ \A r \in requestLog : ~(r.pass = p /\ r.index = k)

\* a forced pass found a paragraph whose fingerprint is both in the kept-set
\* and in the result cache
C1_Witness ==
    \E p \in 1..Len(passes) : \E k \in KeptAtStart(p) :
        /\ passes[p].forceRefresh
        /\ MapHas(enhancedCache, Fingerprint(passes[p].list[k].original.content))
        /\ passes[p].list[k].kept

\* pass p is the second of two runs without forceRefresh with nothing in
\* between: the pass before it had finished, and neither an edit, a keep nor
\* a step of an older pass happened since that pass started
IsSecondRun(p) ==
    /\ p > 1
    /\ passes[p].afterQuiet
    /\ ~passes[p].forceRefresh
    /\ ~passes[p - 1].forceRefresh

\* the fields of an EnhancedParagraph the panel shows
Outcome(para) ==
    [ enhanced |-> para.enhanced, status |-> para.status,
      appliedStyle |-> para.appliedStyle, suggestions |-> para.suggestions ]

SameOutcome(p) ==
    /\ Len(passes[p].list) = Len(passes[p - 1].list)
    /\ \A k \in 1..Len(passes[p].list) :
          Outcome(passes[p].list[k]) = Outcome(passes[p - 1].list[k])

RequestsOf(p) == {r \in requestLog : r.pass = p}

NoErrorIn(p) == \A k \in 1..Len(passes[p].list) : passes[p].list[k].status # "error"

DistinctContents(p) ==
    \A j, k \in 1..Len(passes[p].list) :
        j # k => Fingerprint(passes[p].list[j].original.content)
                   # Fingerprint(passes[p].list[k].original.content)

C3_AutomaticPassDoesNotResend ==
    \A r \in requestLog :
        passes[r.pass].trigger \in {"edit", "editorSwitch", "save"}
            => Fingerprint(passes[r.pass].list[r.index].original.content)
                 \notin passes[r.pass].enhancedAtStart

\* ------------------------------------------------------------------
\* Properties of keepParagraph (checked under ReplSpec)
\* ------------------------------------------------------------------
\* the paragraph the suspended keepParagraph call works on
KeptPara == passes[keepOp.pass].list[keepOp.index]

\* the directive line followed by the block, for each block, one per line
Prefixed(blocks) ==
    JoinLines([k \in 1..Len(blocks) |-> NoEnhanceComment(isMdxFile) \o <<NL>> \o blocks[k]])

\* position k of s holds a newline next to another newline
InNewlineRun(s, k) ==
    /\ s[k] = NL
    /\ \/ (k > 1 /\ s[k - 1] = NL)
       \/ (k < Len(s) /\ s[k + 1] = NL)

\* the maximal pieces of s between runs of two or more newlines, from
\* position k on, in order
RECURSIVE SubBlocksFrom(_, _)
SubBlocksFrom(s, k) ==
    IF k > Len(s) THEN <<>>
    ELSE IF InNewlineRun(s, k) THEN SubBlocksFrom(s, k + 1)
    ELSE LET e == CHOOSE e \in k..Len(s) :
                     /\ \A j \in k..e : ~InNewlineRun(s, j)
                     /\ (e = Len(s) \/ InNewlineRun(s, e + 1))
         IN  <<SubSeq(s, k, e)>> \o SubBlocksFrom(s, e + 1)

\* the members of blocks that are not the empty string, in order
NonEmptyOf(blocks) == SelectSeq(blocks, LAMBDA b : Len(b) > 0)

HasNonWhitespace(b) == \E k \in 1..Len(b) : b[k] \notin Whitespace

\* C10 as stated: the replacement text is the enhanced text split at blank-line
\* boundaries, without its empty sub-blocks, each sub-block prefixed with the
\* keep directive on its own line, joined with single newlines in order.
C10_ReplacementPrefixesSubBlocks ==
    keepOp.pc = "await"
        => keepOp.replacement = Prefixed(NonEmptyOf(SubBlocksFrom(keepOp.enhanced, 1)))

\* C10 amended: the text kept is the enhanced text, or the original content
\* when the enhanced text is empty; it is split at runs of two or more newline
\* characters, each sub-block is trimmed, the sub-blocks without a
\* non-whitespace character are dropped, and the rest are prefixed with the
\* keep directive on its own line and joined with single newlines in order.
C10_ReplacementPrefixesTrimmedSubBlocks ==
    keepOp.pc = "await"
        => LET text == IF keepOp.enhanced = <<>> THEN KeptPara.original.content
                       ELSE keepOp.enhanced
               blocks == SelectSeq(SubBlocksFrom(text, 1), HasNonWhitespace)
           IN  keepOp.replacement = Prefixed([k \in 1..Len(blocks) |-> Trim(blocks[k])])

\* keepParagraph is suspended on the enhanced text "X\n\nY" of scenario E
C10_Witness ==
    /\ keepOp.pc = "await"
    /\ ~isMdxFile
    /\ keepOp.enhanced = <<88, 10, 10, 89>>
    /\ keepOp.replacement = LineHtmlNoEnhance \o <<10, 88, 10>> \o LineHtmlNoEnhance \o <<10, 89>>

\* ------------------------------------------------------------------
\* Properties of the pass after keepParagraph (checked under RekeepSpec)
\* ------------------------------------------------------------------
\* C11 (checked under RekeepSpec, where the document is the replacement text
\* from the keep on and the second pass is the one the keep's edit triggers):
\* every paragraph the segmenter yields for the replacement text carries
\* noEnhance, and the pass that follows the keep issues no request, whether it
\* starts before or after the kept-set entry is recorded.
C11_KeptTextIsNeverRequested ==
    \A p \in 2..Len(passes) :
        /\ \A k \in 1..Len(passes[p].list) : passes[p].list[k].original.noEnhance
        /\ ~\E r \in requestLog : r.pass = p

\* ------------------------------------------------------------------
\* Properties of findChangedParagraphs and buildContext (checked under CallSpec)
\* ------------------------------------------------------------------
DiffReturned == call.fn = "findChangedParagraphs" /\ returned.done

\* the new paragraph k has no old paragraph with its startLine and content
Unmatched(k) ==
    \A j \in 1..Len(call.oldParagraphs) :
        \/ call.oldParagraphs[j].startLine # call.newParagraphs[k].startLine
        \/ call.oldParagraphs[j].content # call.newParagraphs[k].content

\* the old paragraph j starts within 2 lines of the new paragraph k
Within2(j, k) ==
    /\ call.oldParagraphs[j].startLine - call.newParagraphs[k].startLine <= 2
    /\ call.newParagraphs[k].startLine - call.oldParagraphs[j].startLine <= 2

Differs(j, k) == call.oldParagraphs[j].content # call.newParagraphs[k].content

\* scenario D: one old and one new paragraph with the same startLine and
\* different contents give modified = [new], nothing added, nothing removed
ScenarioD ==
    (/\ Len(call.oldParagraphs) = 1
     /\ Len(call.newParagraphs) = 1
     /\ call.oldParagraphs[1].startLine = call.newParagraphs[1].startLine
     /\ Differs(1, 1))
        => returned.value = [added |-> {}, modified |-> {1}, removed |-> {}]

\* C12 as stated: an unmatched new paragraph is modified when some old
\* paragraph with different content starts within 2 lines of it, and added
\* otherwise.
C12_ModifiedWhenSomeNearOldDiffers ==
    DiffReturned =>
        /\ \A k \in 1..Len(call.newParagraphs) :
              LET someNear == \E j \in 1..Len(call.oldParagraphs) : Within2(j, k) /\ Differs(j, k)
              IN  /\ k \in returned.value.modified <=> (Unmatched(k) /\ someNear)
                  /\ k \in returned.value.added <=> (Unmatched(k) /\ ~someNear)
        /\ ScenarioD

\* C12 amended: an unmatched new paragraph is modified when the first old
\* paragraph, in list order, that starts within 2 lines of it has different
\* content, and added otherwise (no old paragraph that near, or the first of
\* them has the same content).
C12_ModifiedWhenFirstNearOldDiffers ==
    DiffReturned =>
        /\ \A k \in 1..Len(call.newParagraphs) :
              LET firstNear == \E j \in 1..Len(call.oldParagraphs) :
                                  /\ Within2(j, k)
                                  /\ \A h \in 1..(j - 1) : ~Within2(h, k)
                                  /\ Differs(j, k)
              IN  /\ k \in returned.value.modified <=> (Unmatched(k) /\ firstNear)
                  /\ k \in returned.value.added <=> (Unmatched(k) /\ ~firstNear)
        /\ ScenarioD

\* old "A" at line 0 and "B" at line 2, new "A" at line 1: the first old
\* paragraph near the new one has its content, a later one does not, and the
\* new paragraph is added
C12_Witness ==
    /\ DiffReturned
    /\ call.oldParagraphs = <<[startLine |-> 0, content |-> LineA], [startLine |-> 2, content |-> LineB]>>
    /\ call.newParagraphs = <<[startLine |-> 1, content |-> LineA]>>
    /\ returned.value.added = {1}
    /\ returned.value.modified = {}

\* the contents of the paragraphs from..to (1-based) of ps, in order, with an
\* empty line between one and the next
RECURSIVE ContentsBetween(_, _, _)
ContentsBetween(ps, from, to) ==
    IF from > to THEN <<>>
    ELSE IF from = to THEN ps[to].content
    ELSE ContentsBetween(ps, from, to - 1) \o <<NL, NL>> \o ps[to].content

\* C13 (checked under CallSpec): buildContext returns the contents of the
\* windowSize paragraphs immediately before index, all of them when fewer
\* exist, in document order and joined by a blank line; the empty string when
\* index or windowSize is 0; nothing of the paragraph at index or after it.
C13_ContextIsPrecedingWindow ==
    (call.fn = "buildContext" /\ returned.done) =>
        LET count == IF call.windowSize < call.currentIndex
                     THEN call.windowSize ELSE call.currentIndex
        IN  /\ returned.value = ContentsBetween(call.paragraphs,
                                                call.currentIndex - count + 1,
                                                call.currentIndex)
            /\ (call.currentIndex = 0 \/ call.windowSize = 0) => returned.value = <<>>

\* three paragraphs "A", "B", "B": the context of the third with window 1 is
\* "B", the context with window 3 is "A\n\nB"
C13_Witness ==
    /\ call.fn = "buildContext" /\ returned.done
    /\ Len(call.paragraphs) = 3
    /\ call.paragraphs[1].content = LineA
    /\ call.paragraphs[2].content = LineB
    /\ call.currentIndex = 2
    /\ \/ call.windowSize = 1 /\ returned.value = LineB
       \/ call.windowSize = 3 /\ returned.value = LineA \o <<NL, NL>> \o LineB

LoopPassed(p, k) == k < passes[p].i

\* pass p has issued a request for the paragraph at index k
Requested(p, k) == \E r \in requestLog : r.pass = p /\ r.index = k

\* C15 (checked under LoopSpec): a paragraph of type code or mdx, or with the
\* ignore or the noEnhance flag, is never the subject of a request, and once
\* the loop of its pass has gone past it its status is complete.
C15_SkippedParagraphsCompleteWithoutRequest ==
    \A p \in 1..Len(passes) : \A k \in 1..Len(passes[p].list) :
        LET para == passes[p].list[k]
        IN  (\/ para.original.type \in {"code", "mdx"}
             \/ para.original.ignore
             \/ para.original.noEnhance)
                => /\ ~Requested(p, k)
                   /\ LoopPassed(p, k) => para.status = "complete"

\* a pass went past an MDX paragraph without a request and now awaits the
\* request of the text after it
C15_Witness ==
    \E p \in 1..Len(passes) :
        /\ Len(passes[p].list) = 3
        /\ passes[p].list[2].original.type = "mdx"
        /\ passes[p].list[2].status = "complete"
        /\ ~Requested(p, 2)
        /\ passes[p].pc = "await" /\ passes[p].i = 3

\* C16 (checked under LoopSpec): a paragraph whose request failed has status
\* error and an error message; in a pass that is not cancelled the loop has
\* gone past it and every pending paragraph after it is still ahead of a loop
\* that is running (suspended on the request of an earlier paragraph), so the
\* failure has not ended the pass.
C16_FailureMarksErrorAndLoopContinues ==
    \A p \in 1..Len(passes) : \A k \in 1..Len(passes[p].list) :
        passes[p].list[k].status = "error"
            => /\ passes[p].list[k].error # Undefined
               /\ Requested(p, k)
               /\ ~passes[p].cancelled
                    => /\ LoopPassed(p, k)
                       /\ \A j \in (k + 1)..Len(passes[p].list) :
                             passes[p].list[j].status = "pending"
                                 => passes[p].pc = "await" /\ passes[p].i < j

\* the request of the first paragraph failed and the pass, not cancelled,
\* awaits the request of the second
C16_Witness ==
    \E p \in 1..Len(passes) :
        /\ ~passes[p].cancelled
        /\ passes[p].list[1].status = "error"
        /\ passes[p].list[1].error = "failed"
        /\ passes[p].pc = "await" /\ passes[p].i = 2
        /\ Requested(p, 2)

\* C17 (checked under LoopSpec): once a pass is cancelled none of its
\* paragraphs is put into status error: the paragraphs its loop had not
\* started stay pending and the paragraph whose request was in flight does
\* not become an error.
C17_CancelledPassGetsNoError ==
    [][\A p \in 1..Len(passes) : \A k \in 1..Len(passes[p].list) :
          passes[p].cancelled
              => /\ passes[p].list[k].status = "pending"
                     => passes'[p].list[k].status = "pending"
                 /\ passes'[p].list[k].status = "error"
                     => passes[p].list[k].status = "error"]_vars

\* ------------------------------------------------------------------
\* Properties of the debounce timer (checked under Spec)
\* ------------------------------------------------------------------
\* the passes started by the debounce timer
EditPasses == {p \in 1..Len(passes) : passes[p].trigger = "edit"}

\* C18 (checked under Spec; a change event that arrives before the timer of
\* the previous one has fired is one that arrives within the delay): every
\* pass started by the timer follows at least one change event, no two such
\* passes follow the same last change event, so a run of changes without a
\* pass in between starts one pass at most, that of its last change; while the
\* timer is pending the last change has started no pass, and once the timer is
\* no longer pending the last change has started one.
C18_OnePassForTheLastChange ==
    /\ \A p \in EditPasses : passes[p].editsAtStart >= 1
    /\ \A p, q \in EditPasses : p < q => passes[p].editsAtStart < passes[q].editsAtStart
    /\ debounceTimer => \A p \in EditPasses : passes[p].editsAtStart < edits
    /\ (~debounceTimer /\ edits > 0) => \E p \in EditPasses : passes[p].editsAtStart = edits

\* two changes, the second while the timer of the first was pending, and
\* one pass, started by the timer after the second
C18_Witness ==
    /\ edits = 2
    /\ ~debounceTimer
    /\ \E p \in EditPasses : passes[p].editsAtStart = 2
    /\ \A p \in EditPasses : passes[p].editsAtStart = 2

C20_SupersededLoopStartsNothing ==
    [][\A p \in 1..(Len(passes) - 1) :
          /\ \A r \in requestLog' : r.pass = p => r \in requestLog
          /\ \A k \in 1..Len(passes[p].list) :
                /\ passes[p].list[k].status = "pending"
                     => passes'[p].list[k].status = "pending"
                /\ passes[p].list[k].status = "complete"
                     => passes'[p].list[k] = passes[p].list[k]]_vars

\* the first pass was superseded while its first request was in flight: the
\* request completed, the loop ended, and the second paragraph is still
\* pending without a request
C20_Witness ==
    /\ Len(passes) = 2
    /\ Len(passes[1].list) = 2
    /\ passes[1].pc = "done"
    /\ passes[1].list[1].status = "complete"
    /\ Requested(1, 1)
    /\ passes[1].list[2].status = "pending"
    /\ ~Requested(1, 2)

\* the indices of the paragraphs pass p has issued a request for
RequestedOf(p) == {r.index : r \in {q \in requestLog : q.pass = p}}

\* C21 (checked under LoopSpec): of the requests a pass has issued at most
\* one is outstanding (its paragraph still processing), that of the paragraph
\* the loop is suspended on; and when a paragraph has a request every earlier
\* paragraph of the pass is finished (complete or error), so the requests are
\* issued in ascending order, each after the earlier ones have returned.
C21_OneRequestAtATimeInOrder ==
    \A p \in 1..Len(passes) :
        /\ Cardinality({k \in RequestedOf(p) : passes[p].list[k].status = "processing"}) <= 1
        /\ \A k \in RequestedOf(p) :
              /\ passes[p].list[k].status = "processing"
                    => passes[p].pc = "await" /\ passes[p].i = k
              /\ \A j \in 1..(k - 1) : passes[p].list[j].status \in {"complete", "error"}

\* a pass has issued two requests: the first has returned and the second is
\* outstanding
C21_Witness ==
    \E p \in 1..Len(passes) :
        /\ RequestedOf(p) = {1, 2}
        /\ passes[p].list[1].status \in {"complete", "error"}
        /\ passes[p].list[2].status = "processing"
        /\ passes[p].pc = "await"

\* C22 (checked under LoopSpec): when the loop of the latest pass has ended
\* and the list shown by the panel is the one that pass published last, the
\* panel shows every paragraph with the status it has in memory.
C22_EndedPassIsPublishedInFull ==
    \A p \in 1..Len(passes) :
        (/\ p = Len(passes)
         /\ passes[p].pc = "done"
         /\ panelContent.pass = p)
            => \A k \in 1..Len(passes[p].list) :
                  panelContent.list[k].status = passes[p].list[k].status

\* ------------------------------------------------------------------
\* Properties of passes over two documents (checked under TwoDocSpec)
\* ------------------------------------------------------------------
\* C23 (checked under TwoDocSpec): a pass is cancelled only by a newer pass
\* for the same document; a pass for another document leaves it running.
C23_OnlySameDocumentCancels ==
    \A p \in 1..Len(passes) :
        passes[p].cancelled
            => \E q \in (p + 1)..Len(passes) : passes[q].uri = passes[p].uri

\* ------------------------------------------------------------------
\* C24: every status change of an EnhancedParagraph is pending to processing,
\* processing to complete, processing to error, or complete to processing in
\* the step that starts a reenhanceParagraph, applySuggestion or
\* improveSelection command; no other change occurs under any interleaving of
\* passes and commands
\* ------------------------------------------------------------------
\* the change of a status from before to after is one the state machine has;
\* byCommand: the step starts one of the three commands
AllowedStatusChange(before, after, byCommand) ==
    \/ after = before
    \/ before = "pending" /\ after = "processing"
    \/ before = "processing" /\ after \in {"complete", "error"}
    \/ before = "complete" /\ after = "processing" /\ byCommand

C24_StatusChangesFollowStateMachine ==
    [][\A p \in 1..Len(passes) : \A k \in 1..Len(passes[p].list) :
          AllowedStatusChange(passes[p].list[k].status, passes'[p].list[k].status,
                              Len(commands') > Len(commands))]_vars

\* ------------------------------------------------------------------
\* C25: once an EnhancedParagraph has kept = true, the loop of
\* processDocument never afterwards changes its status or its enhanced text
\* and never issues a request for it
\* ------------------------------------------------------------------
\* the requests the loop issues in this step for paragraph k of pass p
NewLoopRequests(p, k) ==
    {r \in requestLog' \ requestLog : r.pass = p /\ r.index = k /\ r.by = "loop"}

C25_KeptParagraphIsLeftAloneByLoop ==
    [][\A p \in 1..Len(passes) : \A k \in 1..Len(passes[p].list) :
          passes[p].list[k].kept =>
              /\ passes'[p].list[k].status = passes[p].list[k].status
              /\ passes'[p].list[k].enhanced = passes[p].list[k].enhanced
              /\ NewLoopRequests(p, k) = {}]_vars

\* ------------------------------------------------------------------
\* C26: after an enhancement request for a paragraph with fingerprint F
\* succeeds, in the loop of processDocument or in reenhanceParagraph, the
\* result cache entry for F holds the returned text and suggestions and the
\* style cache entry for F holds the mode of that request (in the loop the
\* style override of the paragraph if it has one, else the default mode; in
\* reenhanceParagraph the mode supplied); a failed request changes neither
\* cache
\* ------------------------------------------------------------------
\* after the step, the caches hold response and mode for the content
CachedAfter(content, response, mode) ==
    /\ MapHas(enhancedCache', Fingerprint(content))
    /\ enhancedCache'[Fingerprint(content)].enhanced = response.enhanced
    /\ enhancedCache'[Fingerprint(content)].suggestions = response.suggestions
    /\ MapHas(appliedStyleCache', Fingerprint(content))
    /\ appliedStyleCache'[Fingerprint(content)] = mode

\* the original paragraph whose request pass p awaits
Awaited(p) == passes[p].list[passes[p].i].original

C26_SuccessWritesBothCachesFailureNone ==
    [][/\ \A p \in 1..Len(passes) : \A response \in CommandResponses :
             EnhanceSucceeds(p, response) =>
                 CachedAfter(Awaited(p).content, response,
                             IF Awaited(p).styleOverride # NoStyle
                             THEN Awaited(p).styleOverride ELSE "expand")
       /\ \A c \in 1..Len(commands) : \A response \in ReenhanceResponses :
             ReenhanceSucceeds(c, response) =>
                 CachedAfter(CommandPara(c).original.content, response, commands[c].mode)
       /\ \A p \in 1..Len(passes) :
             EnhanceFails(p) => UNCHANGED <<enhancedCache, appliedStyleCache>>
       /\ \A c \in 1..Len(commands) :
             ReenhanceFails(c) => UNCHANGED <<enhancedCache, appliedStyleCache>>]_vars

\* a paragraph with the style override casual was enhanced with suggestions
\* by the loop and then by reenhanceParagraph with the mode technical, and a later request of
\* reenhanceParagraph for it failed
C26_Witness ==
    /\ Len(commands) = 2
    /\ commands[1].kind = "reenhance" /\ commands[1].outcome = "ok"
    /\ commands[2].kind = "reenhance" /\ commands[2].outcome = "failed"
    /\ CommandPara(1).original.styleOverride = "casual"
    /\ CommandPara(2).original.content = CommandPara(1).original.content
    /\ passes[commands[1].pass].pc = "done"
    /\ MapHas(appliedStyleCache, Fingerprint(CommandPara(1).original.content))
    /\ appliedStyleCache[Fingerprint(CommandPara(1).original.content)] = "technical"
    /\ enhancedCache[Fingerprint(CommandPara(1).original.content)].enhanced = <<90>>
    /\ CommandPara(1).suggestions # NoSuggestions

\* ------------------------------------------------------------------
\* C27: after a successful applySuggestion(id, suggestionIndex, exampleIndex)
\* the enhanced text of the paragraph is the merge result and exactly the
\* example the command targeted is gone from its suggestions: the whole
\* suggestion if that was its only example, else only that example; every
\* other suggestion and example is unchanged, also when another command on
\* the same paragraph completed while the merge was in flight
\* ------------------------------------------------------------------
\* the position of the first element of a equal to x, 0 if there is none
IndexOf(a, x) ==
    IF \E j \in 1..Len(a) : a[j] = x
    THEN CHOOSE j \in 1..Len(a) : a[j] = x /\ \A i \in 1..(j - 1) : a[i] # x
    ELSE 0

\* the suggestion without the example text
WithoutExampleText(suggestion, text) ==
    [suggestion EXCEPT !.examples = RemoveAt(@, IndexOf(@, text))]

\* the suggestions of list without the example text of the suggestion titled
\* title
WithoutExample(list, title, text) ==
    LET kept == SelectSeq(list, LAMBDA s : ~(s.title = title /\ s.examples = <<text>>))
    IN  [j \in 1..Len(kept) |->
            IF kept[j].title = title THEN WithoutExampleText(kept[j], text) ELSE kept[j]]

C27_ApplyRemovesExactlyTheTargetedExample ==
    [][\A c \in 1..Len(commands) :
          ApplySucceeds(c, MergedText) =>
              /\ passes'[commands[c].pass].list[commands[c].index].enhanced = MergedText
              /\ SuggestionList(passes'[commands[c].pass].list[commands[c].index]) =
                     WithoutExample(SuggestionList(CommandPara(c)), commands[c].title,
                                    commands[c].exampleText)]_vars

StaleKeep(k) ==
    /\ KeepStart(k)
    /\ currentEnhancedParagraphs[k].original.endLine >= Len(doc)

\* after the step, the paragraph at index k of the current list is kept in
\* memory and in the kept-set
KeptAfter(k) ==
    /\ passes'[Len(passes)].list[k].kept
    /\ MapHas(keptParagraphsCache',
              Fingerprint(currentEnhancedParagraphs[k].original.content))

DirectiveLines ==
    {d \in 0..(Len(doc) - 1) : IsDirectiveLine(LineAt(d)) /\ Regions[d + 1].kind = "none"}

\* the paragraph p carries a flag of the kind of the directive line l
CarriesKind(l, p) ==
    IF IsStandaloneIgnore(Trim(l)) THEN p.ignore /\ p.type \notin {"code", "frontmatter"}
    ELSE IF IsStandaloneNoEnhance(Trim(l)) THEN p.noEnhance
    ELSE p.styleOverride # NoStyle

\* the content of p holds a directive of the kind of the directive line l
InlineKind(l, p) ==
    IF IsStandaloneIgnore(Trim(l)) THEN hasAiIgnoreComment(p.content)
    ELSE IF IsStandaloneNoEnhance(Trim(l)) THEN hasNoEnhanceComment(p.content)
    ELSE extractStyleOverride(p.content) # NoStyle

\* the paragraphs that start after line d, and the first of them
StartingAfter(d) == {k \in 1..Len(extracted) : extracted[k].startLine > d}
FirstAfter(d) ==
    CHOOSE k \in StartingAfter(d) :
        \A j \in StartingAfter(d) : extracted[k].startLine <= extracted[j].startLine

\* a standalone directive of the kind of line d on one of the lines from..to
SameKindWithin(d, from, to) ==
    \E e \in DirectiveLines : from <= e /\ e <= to /\ SameKind(LineAt(d), LineAt(e))

C30_DirectiveFlagGoesToFirstFollowingParagraphOnly ==
    segPc = "done" =>
        \A d \in DirectiveLines :
            /\ (/\ StartingAfter(d) # {}
                /\ ~SameKindWithin(d, d + 1, extracted[FirstAfter(d)].startLine - 1))
                  => DirectiveHolds(LineAt(d), extracted[FirstAfter(d)])
            /\ \A k \in StartingAfter(d) :
                  (k # FirstAfter(d) /\ CarriesKind(LineAt(d), extracted[k]))
                      => \/ InlineKind(LineAt(d), extracted[k])
                         \/ SameKindWithin(d, d + 1, extracted[k].startLine - 1)
            /\ \A k \in 1..Len(extracted) :
                  (extracted[k].startLine < d /\ CarriesKind(LineAt(d), extracted[k]))
                      => \/ InlineKind(LineAt(d), extracted[k])
                         \/ SameKindWithin(d, 0, extracted[k].startLine - 1)

\* ------------------------------------------------------------------
\* C31: a malformed combined response (no JSON object in the text, JSON that
\* does not parse, or an object without a string "enhanced") does not fail
\* the request: the paragraph becomes complete, its enhanced text is the
\* response text (trimmed, as every response is) and it has no suggestions
\* ------------------------------------------------------------------
JsonMatch(responseText) ==
    IF FirstBrace(responseText) = 0 \/ LastBrace(responseText) < FirstBrace(responseText)
    THEN <<>>
    ELSE SubSeq(responseText, FirstBrace(responseText), LastBrace(responseText))

SchemaValid(parsed) ==
    parsed.ok /\ JsonGet(parsed.value, KeyEnhanced).t = "string"

Malformed(responseText) ==
    \/ JsonMatch(responseText) = <<>>
    \/ ~SchemaValid(JsonParse(JsonMatch(responseText)))

C31_MalformedResponseCompletesWithRawTextAndNoSuggestions ==
    [][\A p \in 1..Len(passes) : \A responseText \in ResponseTexts :
          (Malformed(responseText) /\ EnhanceReturns(p, responseText)) =>
              LET para == passes'[p].list[passes[p].i]
              IN  /\ para.status = "complete"
                  /\ para.enhanced = Trim(responseText)
                  /\ \A list \in para.suggestions : Len(list) = 0]_vars

\* ------------------------------------------------------------------
\* C32: once a newer pass has published its list, the panel never shows the
\* list of an older pass again: what the panel holds is always the list of
\* the newest pass (every pass publishes its initial list when it starts,
\* line 367)
\* ------------------------------------------------------------------
C32_PanelShowsNewestPass ==
    Len(passes) > 0 => panelContent.pass = Len(passes)

\* ------------------------------------------------------------------
\* C33: in a pass that is not cancelled every paragraph that was pending when
\* the pass started (neither kept nor enhanced before) and is not exempt from
\* enhancement gets its request from the loop, also when reenhanceParagraph
\* or improveSelection ran on it while the loop awaited another request: when
\* the loop has ended, the request of the loop for it has been issued
\* ------------------------------------------------------------------
\* paragraph k of pass p was neither kept nor cached when the pass started
StartedPending(p, k) ==
    /\ Fingerprint(passes[p].list[k].original.content) \notin passes[p].keptAtStart
    /\ Fingerprint(passes[p].list[k].original.content) \notin passes[p].enhancedAtStart

C33_LoopRequestsEveryPendingParagraph ==
    \A p \in 1..Len(passes) :
        (~passes[p].cancelled /\ passes[p].pc = "done") =>
            \A k \in 1..Len(passes[p].list) :
                (StartedPending(p, k) /\ ~SkipsEnhancement(passes[p].list[k].original)) =>
                    [pass |-> p, index |-> k, by |-> "loop"] \in requestLog

\* ------------------------------------------------------------------
\* C34: keepParagraph replaces the lines startLine..endLine of the document
\* only when they still hold the content of the paragraph: a keep command
\* that changes the document finds the original content on those lines, so
\* text the user wrote there since the pass is never overwritten
\* ------------------------------------------------------------------
\* the text on the lines of the document that paragraph k of the current list
\* was read from
TextOnLinesOf(k) ==
    JoinLines(SubSeq(doc, currentEnhancedParagraphs[k].original.startLine + 1,
                     currentEnhancedParagraphs[k].original.endLine + 1))

C34_KeepReplacesOnlyTheOriginalContent ==
    [][\A k \in 1..Len(currentEnhancedParagraphs) :
          (KeepStart(k) /\ doc' # doc) =>
              Trim(TextOnLinesOf(k)) = Trim(currentEnhancedParagraphs[k].original.content)]_vars

\* ------------------------------------------------------------------
\* C35: applySuggestion leaves the result cache as it is: no step of the
\* command (its start, the merge that succeeds, the merge that fails) changes
\* the text or the suggestions of a cache entry, so a later cache hit gives
\* the suggestions that were cached
\* ------------------------------------------------------------------
\* the texts and suggestions the cache holds
CachedResults(cache) ==
    [h \in DOMAIN cache |-> [enhanced |-> cache[h].enhanced,
                             suggestions |-> cache[h].suggestions]]

C35_ApplyLeavesCachedResults ==
    [][\A c \in 1..Len(commands') :
          (\/ c > Len(commands) /\ commands'[c].kind = "apply"
           \/ c <= Len(commands) /\ (ApplySucceeds(c, MergedText) \/ ApplyFails(c)))
          => CachedResults(enhancedCache') = CachedResults(enhancedCache)]_vars

\* ------------------------------------------------------------------
\* C36: the initial status of a paragraph depends on the force flag, the
\* kept-set and the result cache alone: whatever the previous paragraph
\* sequence was, the statuses are those obtained after an empty previous
\* sequence, and a paragraph that is neither kept nor a cache hit is pending
\* ------------------------------------------------------------------
Statuses(list) == [k \in 1..Len(list) |-> list[k].status]

\* the status lines 309-364 give to a paragraph of the given content
StatusFor(content) ==
    IF MapHas(keptParagraphsCache, Fingerprint(content)) THEN "complete"
    ELSE IF ~call.forceRefresh /\ MapHas(enhancedCache, Fingerprint(content)) THEN "complete"
    ELSE "pending"

C36_InitialStatusIgnoresPreviousSequence ==
    (call.fn = "initialList" /\ returned.done) =>
        /\ Statuses(returned.value.list) = Statuses(returned.value.afterNone)
        /\ \A k \in 1..Len(returned.value.list) :
              returned.value.list[k].status = StatusFor(call.newParagraphs[k].content)

\* a list was built after a previous sequence equal to the new one, with a
\* paragraph "B" that is neither kept nor cached and a paragraph "A" that is
\* a cache hit
C36_Witness ==
    /\ call.fn = "initialList" /\ returned.done
    /\ call.oldParagraphs = call.newParagraphs
    /\ ~call.forceRefresh
    /\ keptParagraphsCache = EmptyMap
    /\ \E k \in 1..Len(returned.value.list) :
          /\ call.newParagraphs[k].content = LineB
          /\ returned.value.list[k].status = "pending"
    /\ \E k \in 1..Len(returned.value.list) :
          /\ call.newParagraphs[k].content = LineA
          /\ returned.value.list[k].status = "complete"
          /\ returned.value.list[k].enhanced = <<88>>

\* ------------------------------------------------------------------
\* C40: every command message of the webview (refresh, reenhance, keep,
\* apply, improveSelection) is dispatched by handleMessage to a command id
\* that activate() has registered
\* ------------------------------------------------------------------
C40_MessagesReachRegisteredCommands ==
    (call.fn = "handleMessage" /\ returned.done) =>
        \A k \in 1..Len(returned.value) :
            returned.value[k].command \in RegisteredCommands

\* ------------------------------------------------------------------
\* C37 (checked under LoopLiveSpec, where every request returns): a pass that
\* is not cancelled ends, unless a later pass cancels it, and when it has
\* ended every paragraph of its list is complete or error.  Stated for all
\* passes at once: again and again, every pass is cancelled or has ended with
\* every paragraph complete or error
\* ------------------------------------------------------------------
\* pass p has ended with every paragraph complete or error
Settled(p) ==
    /\ p <= Len(passes)
    /\ passes[p].pc = "done"
    /\ \A k \in 1..Len(passes[p].list) : passes[p].list[k].status \in {"complete", "error"}

Superseded(p) == p <= Len(passes) /\ passes[p].cancelled

C37_UncancelledPassSettles ==
    []<>(\A p \in 1..Len(passes) : Superseded(p) \/ Settled(p))

\* a pass that was never cancelled has ended after a request that succeeded
\* and a request that failed
C37_Witness ==
    \E p \in 1..Len(passes) :
        /\ ~passes[p].cancelled
        /\ Settled(p)
        /\ \E k \in 1..Len(passes[p].list) : passes[p].list[k].status = "error"
        /\ \E k \in 1..Len(passes[p].list) :
              /\ passes[p].list[k].status = "complete"
              /\ passes[p].list[k].enhanced = <<88>>
        /\ Cardinality({e \in requestLog : e.pass = p}) = 2

\* ------------------------------------------------------------------
\* C38: a command called with a paragraph id that no paragraph of the current
\* list has (the id of a paragraph of a superseded pass, or an id not handed
\* out) does nothing: no status, text, cache, document or panel content
\* changes and no request is issued
\* ------------------------------------------------------------------
CurrentIds == {currentEnhancedParagraphs[k].original.id :
                  k \in 1..Len(currentEnhancedParagraphs)}

\* the step changes nothing of the extension or the document
NothingDone ==
    UNCHANGED <<doc, enhancedCache, appliedStyleCache, keptParagraphsCache,
                currentParagraphs, idCounter, passes, panelContent, debounceTimer,
                keepOp, requestLog>>

C38_UnknownIdIsNoOp ==
    [][\A id \in KnownIds \ CurrentIds :
          (\/ \E mode \in CommandModes : reenhanceParagraph(id, mode)
           \/ applySuggestion(id, 1, 1)
           \/ improveSelection(id)
           \/ keepParagraph(id)) => NothingDone]_vars

\* with the second pass as the current one, each of the four commands was
\* called with the id of the paragraph of the first pass, or one of them twice
C38_Witness ==
    /\ Len(passes) = 2
    /\ Len(commands) = 2
    /\ \A c \in 1..2 : commands[c].outcome = "notFound" /\ commands[c].id = 0
    /\ commands[1].kind # commands[2].kind
    /\ 0 \notin CurrentIds

\* ------------------------------------------------------------------
\* C39: reenhanceParagraph issues no request for a paragraph that is exempt
\* from enhancement: one of type code or mdx, or with ignore or noEnhance set
\* ------------------------------------------------------------------
C39_ReenhanceRequestsNoExemptParagraph ==
    \A e \in requestLog :
        e.by = "reenhance" => ~SkipsEnhancement(passes[e.pass].list[e.index].original)

====
